---- MODULE Spec2Model ----
(***************************************************************************)
(* Model of the vtool vulnerability classification pipeline:               *)
(*   analyzeReachability -> detectFalsePositives -> extractVulnerabilities *)
(*   -> generateJsonOutput, as driven by the POST /analyze handler.        *)
(*                                                                         *)
(* JavaScript strings are modelled as sequences of one-character strings,  *)
(* so that toLowerCase, includes, startsWith, split, replace and parseInt  *)
(* are computed the way the code computes them.  A missing (undefined or   *)
(* null) string is the empty sequence wherever the code reads the field    *)
(* only through a falsy test (`x || default`, `!x`).  A missing object    *)
(* (manifest, call graph, map entry) is the record Null.                   *)
(*                                                                         *)
(* An intermediate value that the code stores in a local variable and      *)
(* reads several times is bound once, by With or by a quantifier over a    *)
(* singleton set, so that it is computed once as in the code.              *)
(***************************************************************************)
EXTENDS Integers, Sequences, FiniteSets, TLC

VARIABLES vulnerabilities,       \* owaspData.vulnerabilities, the findings
          manifestData,          \* the parsed manifest, or Null
          callGraph,             \* the parsed call graph, or Null
          runtimePlatform,       \* process.platform
          pc,                    \* the handler's position in the pipeline
          idx,                   \* the index of the running for-of loop
          reachabilityResults,   \* `results` of analyzeReachability
          falsePositives,        \* the list detectFalsePositives builds
          trueVulnerabilities,   \* the list extractVulnerabilities returns
          jsonOutput,            \* the result of generateJsonOutput, or Null
          reportPc,              \* the position of generateLLMReport
          attempt,               \* `attempt` of its retry loop
          lastError,             \* `lastError`: the message of the last failure
          slept,                 \* the delays it has slept, in milliseconds
          llmReport,             \* what generateLLMReport returned, or Null
          app,                   \* the state of the App component (its useState hooks)
          requests               \* the fetch calls of the client still awaited

reportVars == <<reportPc, attempt, lastError, slept, llmReport>>

clientVars == <<app, requests>>

vars == <<vulnerabilities, manifestData, callGraph, runtimePlatform, pc, idx,
          reachabilityResults, falsePositives, trueVulnerabilities, jsonOutput,
          reportPc, attempt, lastError, slept, llmReport, app, requests>>

\* null / undefined object
Null == [null |-> TRUE]

\* F applied to the value of v, computed once (const x = v; return F(x))
With(v, F(_)) == CHOOSE r \in {F(x) : x \in {v}} : TRUE

-----------------------------------------------------------------------------
(* Characters and JavaScript string primitives                             *)

LowerSeq == <<"a","b","c","d","e","f","g","h","i","j","k","l","m",
              "n","o","p","q","r","s","t","u","v","w","x","y","z">>
UpperSeq == <<"A","B","C","D","E","F","G","H","I","J","K","L","M",
              "N","O","P","Q","R","S","T","U","V","W","X","Y","Z">>
DigitSeq == <<"0","1","2","3","4","5","6","7","8","9">>
Lower == {LowerSeq[k] : k \in DOMAIN LowerSeq}
Upper == {UpperSeq[k] : k \in DOMAIN UpperSeq}
Digit == {DigitSeq[k] : k \in DOMAIN DigitSeq}
\* \w of a JavaScript regular expression
WordChar == Lower \cup Upper \cup Digit \cup {"_"}
WordDotChar == WordChar \cup {"."}
ScopeChar == WordChar \cup {"/", "-"}
\* \s, for the characters the model uses
Space == {" "}

Min(a, b) == IF a < b THEN a ELSE b
Max(a, b) == IF a > b THEN a ELSE b

\* String.prototype.toLowerCase / toUpperCase, one character
LowerOf(c) == IF c \in Upper THEN LowerSeq[CHOOSE k \in DOMAIN UpperSeq : UpperSeq[k] = c] ELSE c
UpperOf(c) == IF c \in Lower THEN UpperSeq[CHOOSE k \in DOMAIN LowerSeq : LowerSeq[k] = c] ELSE c

RECURSIVE lowerFrom(_, _)
lowerFrom(s, k) == IF k > Len(s) THEN << >> ELSE <<LowerOf(s[k])>> \o lowerFrom(s, k + 1)
RECURSIVE upperFrom(_, _)
upperFrom(s, k) == IF k > Len(s) THEN << >> ELSE <<UpperOf(s[k])>> \o upperFrom(s, k + 1)

toLowerCase(str) == With(str, LAMBDA s : lowerFrom(s, 1))
toUpperCase(str) == With(str, LAMBDA s : upperFrom(s, 1))

\* s.substring(k - 1): the characters of s from the 1-based index k on
From(str, k) == With(str, LAMBDA s : SubSeq(s, k, Len(s)))

\* s.includes(t), s.startsWith(t), s.endsWith(t)
includes(str, sub) ==
    \E s \in {str}, t \in {sub} :
        \E k \in 0..(Len(s) - Len(t)) : SubSeq(s, k + 1, k + Len(t)) = t
startsWith(str, sub) ==
    \E s \in {str}, t \in {sub} : Len(t) <= Len(s) /\ SubSeq(s, 1, Len(t)) = t
endsWith(str, sub) ==
    \E s \in {str}, t \in {sub} :
        Len(t) <= Len(s) /\ SubSeq(s, Len(s) - Len(t) + 1, Len(s)) = t

\* s.indexOf(c, from - 1) + 1: the first index >= from at which c occurs, or 0
firstAt(s, c, from) ==
    IF \E k \in from..Len(s) : s[k] = c
    THEN CHOOSE k \in from..Len(s) : s[k] = c /\ \A m \in from..(k - 1) : s[m] # c
    ELSE 0
indexOf(str, c, from) == With(str, LAMBDA s : firstAt(s, c, from))

\* s.split(c): the parts between the occurrences of the character c
RECURSIVE splitFrom(_, _, _)
splitFrom(s, c, from) ==
    With(firstAt(s, c, from), LAMBDA k :
        IF k = 0 THEN <<SubSeq(s, from, Len(s))>>
        ELSE <<SubSeq(s, from, k - 1)>> \o splitFrom(s, c, k + 1))
split(str, c) == With(str, LAMBDA s : splitFrom(s, c, 1))

\* s.replace(/[set]/g, '')
removeAll(str, set) == SelectSeq(str, LAMBDA c : c \notin set)

\* the number of leading / trailing characters of s that are in set
RECURSIVE leading(_, _, _)
leading(s, set, k) == IF k <= Len(s) /\ s[k] \in set THEN leading(s, set, k + 1) ELSE k - 1
RECURSIVE trailing(_, _, _)
trailing(s, set, k) == IF k >= 1 /\ s[k] \in set THEN trailing(s, set, k - 1) ELSE Len(s) - k

\* s.trim()
trim(str) ==
    With(str, LAMBDA s :
        IF leading(s, Space, 1) = Len(s) THEN << >>
        ELSE SubSeq(s, leading(s, Space, 1) + 1, Len(s) - trailing(s, Space, Len(s))))

allIn(s, set) == \A k \in DOMAIN s : s[k] \in set
\* the characters a..b of s are a non-empty run of characters in set
isRun(s, a, b, set) == a <= b /\ \A k \in a..b : s[k] \in set

\* parseInt(p.replace(/\D/g, '')) || 0
digitOf(c) == (CHOOSE k \in DOMAIN DigitSeq : DigitSeq[k] = c) - 1
RECURSIVE digitsValue(_, _, _)
digitsValue(s, k, acc) ==
    IF k > Len(s) THEN acc
    ELSE digitsValue(s, k + 1, IF s[k] \in Digit THEN 10 * acc + digitOf(s[k]) ELSE acc)
parseIntDigits(p) == With(p, LAMBDA s : digitsValue(s, 1, 0))

-----------------------------------------------------------------------------
(* parsers/manifestParser.js                                               *)

Unknown == <<"U","n","k","n","o","w","n">>

\* cleanVersionString: drop the leading run of ^ ~ > = <, then all whitespace
cleanVersionString(version) ==
    With(version, LAMBDA v :
        IF v = << >> THEN Unknown
        ELSE trim(removeAll(SubSeq(v, leading(v, {"^","~",">","=","<"}, 1) + 1, Len(v)),
                            Space)))

\* /@[\w/-]+\// matches the characters i..j of s
scopeAt(s, i, j) ==
    /\ s[i] = "@" /\ j > i + 1 /\ s[j] = "/"
    /\ \A k \in (i + 1)..(j - 1) : s[k] \in ScopeChar

\* s.replace(/@[\w/-]+\//, ''): the leftmost match, taken as long as it can be
removeScope(s) ==
    With({i \in DOMAIN s : \E j \in DOMAIN s : scopeAt(s, i, j)}, LAMBDA starts :
        IF starts = {} THEN s
        ELSE With(CHOOSE a \in starts : \A b \in starts : a <= b, LAMBDA i :
             With({j \in DOMAIN s : scopeAt(s, i, j)}, LAMBDA ends :
             With(CHOOSE a \in ends : \A b \in ends : a >= b, LAMBDA j :
                SubSeq(s, 1, i - 1) \o SubSeq(s, j + 1, Len(s))))))

\* normalizePackageName: lower-case, drop _ and -, drop the first npm scope, trim
normalizePackageName(name) ==
    With(name, LAMBDA n :
        IF n = << >> THEN << >>
        ELSE With(removeAll(toLowerCase(n), {"_", "-"}), LAMBDA s : trim(removeScope(s))))

\* versionsMatch: equal after cleaning, or one cleaned string a prefix of the other
versionsMatch(version1, version2) ==
    \E v1 \in {version1}, v2 \in {version2} :
        /\ v1 # << >> /\ v2 # << >>
        /\ \E clean1 \in {cleanVersionString(v1)}, clean2 \in {cleanVersionString(v2)} :
              clean1 = clean2 \/ startsWith(clean1, clean2) \/ startsWith(clean2, clean1)

-----------------------------------------------------------------------------
(* extractPackageName, as written in each of the two analyzers             *)

Extensions == { <<".","j","a","r">>, <<".","w","a","r">>, <<".","z","i","p">>,
                <<".","t","a","r",".","g","z">>, <<".","t","g","z">>,
                <<".","w","h","l">>, <<".","e","g","g">> }

\* dependency.replace(/\.(jar|war|zip|tar\.gz|tgz|whl|egg)$/i, '')
stripExtension(str) ==
    With(str, LAMBDA s :
    With(toLowerCase(s), LAMBDA lowered :
    With({Len(e) : e \in {x \in Extensions : endsWith(lowered, x)}}, LAMBDA lens :
        IF lens = {} THEN s
        ELSE SubSeq(s, 1, Len(s) - (CHOOSE a \in lens : \A b \in lens : a >= b)))))

\* ([.-][\w.]+)?$  matches s from index k on
optSuffixAt(s, k) ==
    k > Len(s) \/ (s[k] \in {".", "-"} /\ isRun(s, k + 1, Len(s), WordDotChar))
\* (\.\d+)?([.-][\w.]+)?$  matches s from index k on
optPatchSuffixAt(s, k) ==
    \/ optSuffixAt(s, k)
    \/ \E m \in (k + 1)..Len(s) : s[k] = "." /\ isRun(s, k + 1, m, Digit) /\ optSuffixAt(s, m + 1)
\* -\d+\.\d+(\.\d+)?([.-][\w.]+)?$  matches s from index p on
versionSuffixAt(s, p) ==
    /\ s[p] = "-"
    /\ \E i \in (p + 1)..Len(s) : \E j \in (i + 2)..Len(s) :
          /\ isRun(s, p + 1, i, Digit) /\ s[i + 1] = "." /\ isRun(s, i + 2, j, Digit)
          /\ optPatchSuffixAt(s, j + 1)

\* name.replace(/-\d+\.\d+(\.\d+)?([.-][\w.]+)?$/, '')
stripVersionSuffix(name) ==
    With(name, LAMBDA s :
    With({p \in DOMAIN s : versionSuffixAt(s, p)}, LAMBDA at :
        IF at = {} THEN s
        ELSE SubSeq(s, 1, (CHOOSE a \in at : \A b \in at : a <= b) - 1)))

\* name.split('@')[0] when name has an @ that is not its first character
cutAtVersion(name) ==
    IF includes(name, <<"@">>) /\ ~startsWith(name, <<"@">>) THEN split(name, "@")[1] ELSE name

\* name.substring(0, name.indexOf('@', 1)) when name starts with @ and has a second @
cutScopedVersion(name) ==
    IF startsWith(name, <<"@">>) /\ firstAt(name, "@", 2) > 0
    THEN SubSeq(name, 1, firstAt(name, "@", 2) - 1) ELSE name

\* falsePositiveDetector.js
extractPackageName_fp(dependency) ==
    With(dependency, LAMBDA dep :
        IF dep = << >> THEN << >>
        ELSE With(stripExtension(dep), LAMBDA name :
                IF includes(name, <<":">>) THEN split(name, ":")[2]
                ELSE stripVersionSuffix(cutAtVersion(name))))

\* reachabilityAnalyzer.js: also cuts `@scope/name@version` at its second @
extractPackageName_ra(dependency) ==
    With(dependency, LAMBDA dep :
        IF dep = << >> THEN << >>
        ELSE With(stripExtension(dep), LAMBDA name :
                IF includes(name, <<":">>) THEN split(name, ":")[2]
                ELSE With(cutAtVersion(name), LAMBDA n1 :
                        stripVersionSuffix(cutScopedVersion(n1)))))

-----------------------------------------------------------------------------
(* analyzers/reachabilityAnalyzer.js                                       *)
(* A dependency map (a JavaScript object) is the sequence of its entries   *)
(* in Object.entries order: [name, version, isDev, isOptional].  The       *)
(* productionDependencies and devDependencies maps hold bare version       *)
(* strings, so their entries carry isOptional = FALSE (info.isOptional of  *)
(* a string is undefined).  A tri-state field (true / false / null) holds  *)
(* "true", "false" or "null".                                              *)

nonProdMarkers == << <<"t","e","s","t">>, <<"_","_","t","e","s","t","s","_","_">>,
                     <<"s","p","e","c">>, <<"_","_","m","o","c","k","s","_","_">>,
                     <<"e","x","a","m","p","l","e">>, <<"e","x","a","m","p","l","e","s">>,
                     <<"d","e","m","o">>, <<"s","a","m","p","l","e">>,
                     <<"f","i","x","t","u","r","e">> >>

classifyPath(filePath) ==
    With(filePath, LAMBDA path :
        IF path = << >> THEN "unknown"
        ELSE With(toLowerCase(path), LAMBDA lowered :
                IF \E k \in DOMAIN nonProdMarkers :
                      \E marker \in {nonProdMarkers[k]} :
                         \/ includes(lowered, <<"/">> \o marker \o <<"/">>)
                         \/ includes(lowered, <<"\\">> \o marker \o <<"\\">>)
                         \/ endsWith(lowered, <<"/">> \o marker)
                         \/ endsWith(lowered, <<"\\">> \o marker)
                THEN "non_prod" ELSE "prod"))

\* nodes.some(node => normalizePackageName(node.name || node.id || '') === normalized)
referencedByNode(cg, normalized) ==
    \E k \in DOMAIN cg.nodes : normalizePackageName(cg.nodes[k]) = normalized

\* referencedByEdge comparing the endpoints with ===, as the nodes are
referencedByEdge_exactOnly(cg, normalized) ==
    \E k \in DOMAIN cg.edges :
        \/ normalizePackageName(cg.edges[k].from) = normalized
        \/ normalizePackageName(cg.edges[k].to) = normalized

\* edges.some(edge => from.includes(normalized) || to.includes(normalized))
referencedByEdge(cg, normalized) ==
    \E k \in DOMAIN cg.edges :
        \/ includes(normalizePackageName(cg.edges[k].from), normalized)
        \/ includes(normalizePackageName(cg.edges[k].to), normalized)

\* callGraph: Null, or [nodes: sequence of node names, edges: sequence of [from, to]]
assessCallGraphReachability(vuln, cg) ==
    IF cg = Null THEN Null
    ELSE With(normalizePackageName(extractPackageName_ra(vuln.dependency)), LAMBDA normalized :
         With(<<referencedByNode(cg, normalized), referencedByEdge(cg, normalized)>>, LAMBDA ref :
            IF ~ref[1] /\ ~ref[2]
            THEN [isReachable |-> FALSE, confidence |-> "HIGH",
                  reason |-> "Call graph analysis: no invocation path to the vulnerable component",
                  evidence |-> "No call graph nodes or edges reference this dependency"]
            ELSE [isReachable |-> TRUE,
                  confidence |-> IF ref[2] THEN "HIGH" ELSE "MEDIUM",
                  reason |-> "Call graph analysis: vulnerable component is referenced in application call graph",
                  evidence |-> "Call graph contains references to the vulnerable component"]))

\* the loop of findDependencyMatch from entry k: the first entry, in map order,
\* that matches exactly or by containment
RECURSIVE findFrom(_, _, _)
findFrom(normalizedSearch, manifestDeps, k) ==
    IF k > Len(manifestDeps) THEN Null
    ELSE With(normalizePackageName(manifestDeps[k].name), LAMBDA normalizedName :
            IF normalizedName = normalizedSearch
            THEN [name |-> manifestDeps[k].name, version |-> manifestDeps[k].version,
                  info |-> manifestDeps[k], partialMatch |-> FALSE]
            ELSE IF includes(normalizedName, normalizedSearch)
                    \/ includes(normalizedSearch, normalizedName)
            THEN [name |-> manifestDeps[k].name, version |-> manifestDeps[k].version,
                  info |-> manifestDeps[k], partialMatch |-> TRUE]
            ELSE findFrom(normalizedSearch, manifestDeps, k + 1))

findDependencyMatch(depName, manifestDeps) ==
    With(depName, LAMBDA name :
        IF name = << >> THEN Null
        ELSE With(normalizePackageName(name), LAMBDA normalizedSearch :
                findFrom(normalizedSearch, manifestDeps, 1)))

\* noManifestInfo with `?? false` where the source has `?? true`
noManifestInfo_unreachableDefault(callGraphResult, pathClassification) ==
    [isReachable |-> IF callGraphResult # Null THEN callGraphResult.isReachable ELSE FALSE,
     confidence |-> IF callGraphResult # Null THEN callGraphResult.confidence
                    ELSE IF pathClassification = "non_prod" THEN "MEDIUM" ELSE "LOW",
     reason |-> IF callGraphResult # Null THEN callGraphResult.reason
                ELSE IF pathClassification = "non_prod"
                     THEN "Vulnerability exists in non-production/test/example path"
                     ELSE "No manifest provided - reachability assumed",
     isDirect |-> "null",
     isDevDependency |-> "null",
     pathClassification |-> pathClassification,
     callGraphEvidence |-> IF callGraphResult # Null THEN callGraphResult.evidence ELSE "null"]

\* noManifestInfo with `callGraphResult?.confidence` alone, without the `||`
\* that supplies a confidence when there is no call graph
noManifestInfo_noConfidenceFallback(callGraphResult, pathClassification) ==
    [isReachable |-> IF callGraphResult # Null THEN callGraphResult.isReachable ELSE TRUE,
     confidence |-> IF callGraphResult # Null THEN callGraphResult.confidence ELSE "null",
     reason |-> IF callGraphResult # Null THEN callGraphResult.reason
                ELSE IF pathClassification = "non_prod"
                     THEN "Vulnerability exists in non-production/test/example path"
                     ELSE "No manifest provided - reachability assumed",
     isDirect |-> "null",
     isDevDependency |-> "null",
     pathClassification |-> pathClassification,
     callGraphEvidence |-> IF callGraphResult # Null THEN callGraphResult.evidence ELSE "null"]

\* the record the no-manifest branch of analyzeReachability builds for one finding
noManifestInfo(callGraphResult, pathClassification) ==
    [isReachable |-> IF callGraphResult # Null THEN callGraphResult.isReachable ELSE TRUE,
     confidence |-> IF callGraphResult # Null THEN callGraphResult.confidence
                    ELSE IF pathClassification = "non_prod" THEN "MEDIUM" ELSE "LOW",
     reason |-> IF callGraphResult # Null THEN callGraphResult.reason
                ELSE IF pathClassification = "non_prod"
                     THEN "Vulnerability exists in non-production/test/example path"
                     ELSE "No manifest provided - reachability assumed",
     isDirect |-> "null",
     isDevDependency |-> "null",
     pathClassification |-> pathClassification,
     callGraphEvidence |-> IF callGraphResult # Null THEN callGraphResult.evidence ELSE "null"]

\* The rules of analyzeReachability for one finding, in source order.  Each takes
\* the record built so far and overwrites the fields it sets when it fires.

\* the initial reachabilityInfo, with isDirect set when the manifest lists the dependency
ruleBaseline(pathClassification, directMatch) ==
    [isReachable |-> TRUE, confidence |-> "MEDIUM",
     reason |-> "No reachability blockers detected",
     isDirect |-> IF directMatch # Null THEN "true" ELSE "false",
     isDevDependency |-> "false",
     matchedDependency |-> IF directMatch # Null THEN directMatch.name ELSE Null,
     actualVersion |-> IF directMatch # Null THEN directMatch.version ELSE Null,
     callGraphEvidence |-> "null",
     pathClassification |-> pathClassification]

ruleCallGraph(r, callGraphResult) ==
    IF callGraphResult # Null
    THEN [r EXCEPT !.callGraphEvidence = callGraphResult.evidence,
                   !.isReachable = callGraphResult.isReachable,
                   !.confidence = callGraphResult.confidence,
                   !.reason = callGraphResult.reason]
    ELSE r

ruleDevOnly(r, prodMatch, devMatch) ==
    IF devMatch # Null /\ prodMatch = Null
    THEN [r EXCEPT !.isDevDependency = "true", !.isReachable = FALSE,
                   !.confidence = "HIGH",
                   !.reason = "Development-only dependency - not included in production builds"]
    ELSE r

\* ruleProduction raising the confidence only, leaving isReachable as it was
ruleProduction_confidenceOnly(r, prodMatch, devMatch) ==
    IF devMatch = Null /\ prodMatch # Null
    THEN [r EXCEPT !.confidence = "HIGH",
                   !.reason = "Direct production dependency - code is reachable"]
    ELSE r

ruleProduction(r, prodMatch, devMatch) ==
    IF devMatch = Null /\ prodMatch # Null
    THEN [r EXCEPT !.isReachable = TRUE, !.confidence = "HIGH",
                   !.reason = "Direct production dependency - code is reachable"]
    ELSE r

ruleTransitive(r, directMatch) ==
    IF directMatch = Null
    THEN [r EXCEPT !.isDirect = "false", !.isReachable = TRUE,
                   !.reason = "Transitive dependency - may or may not be reachable"]
    ELSE r

ruleNonProdPath(r) ==
    IF r.pathClassification = "non_prod"
    THEN [r EXCEPT !.isReachable = FALSE, !.confidence = "HIGH",
                   !.reason = "Vulnerability exists in non-production/test/example path"]
    ELSE r

\* directMatch?.info?.isOptional && !prodMatch
optionalNotProd(directMatch, prodMatch) ==
    IF directMatch = Null THEN FALSE ELSE directMatch.info.isOptional /\ prodMatch = Null

ruleOptional(r, directMatch, prodMatch) ==
    IF optionalNotProd(directMatch, prodMatch)
    THEN [r EXCEPT !.isReachable = FALSE, !.confidence = "MEDIUM",
                   !.reason = "Optional dependency not included in production runtime"]
    ELSE r

\* withManifestInfo with the non-production path rule moved before the
\* production-dependency rule
withManifestInfo_pathBeforeProduction(m, callGraphResult, pathClassification) ==
    With(ruleBaseline(pathClassification, m[1]), LAMBDA r0 :
    With(ruleCallGraph(r0, callGraphResult), LAMBDA r1 :
    With(ruleDevOnly(r1, m[2], m[3]), LAMBDA r2 :
    With(ruleNonProdPath(r2), LAMBDA r3 :
    With(ruleProduction(r3, m[2], m[3]), LAMBDA r4 :
    With(ruleTransitive(r4, m[1]), LAMBDA r5 :
        ruleOptional(r5, m[1], m[2])))))))

\* withManifestInfo with the call-graph rule moved after the dev-only rule
withManifestInfo_callGraphAfterDevOnly(m, callGraphResult, pathClassification) ==
    With(ruleBaseline(pathClassification, m[1]), LAMBDA r0 :
    With(ruleDevOnly(r0, m[2], m[3]), LAMBDA r1 :
    With(ruleCallGraph(r1, callGraphResult), LAMBDA r2 :
    With(ruleProduction(r2, m[2], m[3]), LAMBDA r3 :
    With(ruleTransitive(r3, m[1]), LAMBDA r4 :
    With(ruleNonProdPath(r4), LAMBDA r5 :
        ruleOptional(r5, m[1], m[2])))))))

\* withManifestInfo with the optional rule moved before the non-production path rule
withManifestInfo_optionalBeforePath(m, callGraphResult, pathClassification) ==
    With(ruleBaseline(pathClassification, m[1]), LAMBDA r0 :
    With(ruleCallGraph(r0, callGraphResult), LAMBDA r1 :
    With(ruleDevOnly(r1, m[2], m[3]), LAMBDA r2 :
    With(ruleProduction(r2, m[2], m[3]), LAMBDA r3 :
    With(ruleTransitive(r3, m[1]), LAMBDA r4 :
    With(ruleOptional(r4, m[1], m[2]), LAMBDA r5 :
        ruleNonProdPath(r5)))))))

\* the record the manifest branch builds, from what the iteration computed first:
\* m = <<directMatch, prodMatch, devMatch>>
withManifestInfo(m, callGraphResult, pathClassification) ==
    With(ruleBaseline(pathClassification, m[1]), LAMBDA r0 :
    With(ruleCallGraph(r0, callGraphResult), LAMBDA r1 :
    With(ruleDevOnly(r1, m[2], m[3]), LAMBDA r2 :
    With(ruleProduction(r2, m[2], m[3]), LAMBDA r3 :
    With(ruleTransitive(r3, m[1]), LAMBDA r4 :
    With(ruleNonProdPath(r4), LAMBDA r5 :
        ruleOptional(r5, m[1], m[2])))))))

\* <<directMatch, prodMatch, devMatch>> of one iteration
matchesOf(vuln, manifest) ==
    With(extractPackageName_ra(vuln.dependency), LAMBDA depName :
        <<findDependencyMatch(depName, manifest.dependencies),
          findDependencyMatch(depName, manifest.productionDependencies),
          findDependencyMatch(depName, manifest.devDependencies)>>)

\* the record one iteration stores at reachabilityMap[vuln.cveId]
reachabilityInfo(vuln, manifest, cg) ==
    With(assessCallGraphReachability(vuln, cg), LAMBDA callGraphResult :
    With(classifyPath(vuln.filePath), LAMBDA pathClassification :
        IF manifest = Null THEN noManifestInfo(callGraphResult, pathClassification)
        ELSE With(matchesOf(vuln, manifest), LAMBDA m :
                withManifestInfo(m, callGraphResult, pathClassification))))

\* what one iteration pushes onto directDependencies, transitiveDependencies and
\* unreachableDependencies, as <<direct, transitive, unreachable>>
pushesOf(vuln, manifest) ==
    With(classifyPath(vuln.filePath) = "non_prod", LAMBDA nonProd :
        IF manifest = Null
        THEN << << >>, << >>, IF nonProd THEN <<vuln.dependency>> ELSE << >> >>
        ELSE With(matchesOf(vuln, manifest), LAMBDA m :
                << IF m[3] = Null /\ m[2] # Null THEN <<vuln.dependency>> ELSE << >>,
                   IF m[1] = Null THEN <<vuln.dependency>> ELSE << >>,
                   (IF m[3] # Null /\ m[2] = Null THEN <<vuln.dependency>> ELSE << >>)
                   \o (IF nonProd THEN <<vuln.dependency>> ELSE << >>)
                   \o (IF optionalNotProd(m[1], m[2]) THEN <<vuln.dependency>> ELSE << >>) >>))

\* `results` after the iteration for vuln
analyzeOne(results, vuln, manifest, cg) ==
    With(pushesOf(vuln, manifest), LAMBDA pushed :
        [directDependencies |-> results.directDependencies \o pushed[1],
         transitiveDependencies |-> results.transitiveDependencies \o pushed[2],
         unreachableDependencies |-> results.unreachableDependencies \o pushed[3],
         reachabilityMap |-> [results.reachabilityMap EXCEPT
                                ![vuln.cveId] = reachabilityInfo(vuln, manifest, cg)]])

-----------------------------------------------------------------------------
(* analyzers/falsePositiveDetector.js                                      *)
(* A check result is [isFalsePositive, reason, details, confidence]; the   *)
(* details text is the tuple of its template's name and its arguments.     *)

\* reachabilityResults?.reachabilityMap?.[vuln.cveId]
reachInfoOf(vuln, results) == results.reachabilityMap[vuln.cveId]

\* v.split('.').map(p => parseInt(p.replace(/\D/g, '')) || 0)
versionParts(v) ==
    With(split(v, "."), LAMBDA parts : [k \in DOMAIN parts |-> parseIntDigits(parts[k])])

\* the comparison loop of isHigherVersion, from index i
RECURSIVE higherFrom(_, _, _)
higherFrom(parts1, parts2, i) ==
    IF i > Max(Len(parts1), Len(parts2)) THEN FALSE
    ELSE With(<<IF i <= Len(parts1) THEN parts1[i] ELSE 0,
                IF i <= Len(parts2) THEN parts2[i] ELSE 0>>, LAMBDA p :
            IF p[1] > p[2] THEN TRUE
            ELSE IF p[1] < p[2] THEN FALSE
            ELSE higherFrom(parts1, parts2, i + 1))

\* isHigherVersion deciding on the first component alone
isHigherVersion_firstPartOnly(v1, v2) ==
    IF v1 = << >> \/ v2 = << >> THEN FALSE
    ELSE \E parts1 \in {versionParts(v1)}, parts2 \in {versionParts(v2)} :
            parts1[1] > parts2[1]

isHigherVersion(v1, v2) ==
    IF v1 = << >> \/ v2 = << >> THEN FALSE
    ELSE \E parts1 \in {versionParts(v1)}, parts2 \in {versionParts(v2)} :
            higherFrom(parts1, parts2, 1)

noResult(reason) ==
    [isFalsePositive |-> FALSE, reason |-> reason, details |-> << >>, confidence |-> "LOW"]

\* the loop of checkVersionMismatch over Object.entries(manifestDeps), from entry k
RECURSIVE versionMismatchFrom(_, _, _, _)
versionMismatchFrom(reportedVersion, normalizedDep, manifestDeps, k) ==
    IF k > Len(manifestDeps) THEN noResult("VERSION_MISMATCH")
    ELSE With(manifestDeps[k].version, LAMBDA actualVersion :
            IF /\ normalizePackageName(manifestDeps[k].name) = normalizedDep
               /\ actualVersion # << >> /\ reportedVersion # << >>
               /\ ~versionsMatch(actualVersion, reportedVersion)
            THEN IF isHigherVersion(actualVersion, reportedVersion)
                 THEN [isFalsePositive |-> TRUE, reason |-> "VERSION_MISMATCH",
                       details |-> <<"newer-than-reported", actualVersion, reportedVersion>>,
                       confidence |-> "HIGH"]
                 ELSE [isFalsePositive |-> TRUE, reason |-> "VERSION_MISMATCH",
                       details |-> <<"version-mismatch", reportedVersion, actualVersion>>,
                       confidence |-> "MEDIUM"]
            ELSE versionMismatchFrom(reportedVersion, normalizedDep, manifestDeps, k + 1))

checkVersionMismatch(vuln, manifest) ==
    IF manifest = Null THEN noResult("VERSION_MISMATCH")
    ELSE With(normalizePackageName(extractPackageName_fp(vuln.dependency)), LAMBDA normalizedDep :
            versionMismatchFrom(vuln.version, normalizedDep, manifest.dependencies, 1))

envSignals == << [keyword |-> <<"w","i","n","d","o","w","s">>, platforms |-> {"win32"}],
                 [keyword |-> <<"m","a","c","o","s">>, platforms |-> {"darwin"}],
                 [keyword |-> <<"o","s"," ","x">>, platforms |-> {"darwin"}],
                 [keyword |-> <<"l","i","n","u","x">>, platforms |-> {"linux"}],
                 [keyword |-> <<"a","n","d","r","o","i","d">>, platforms |-> {"android"}],
                 [keyword |-> <<"i","o","s">>, platforms |-> {"ios"}] >>

\* mismatchedSignals stopping at the first keyword the description has, whether
\* or not its platform is the runtime platform
mismatchedSignals_firstKeywordOnly(description, platform) ==
    {k \in DOMAIN envSignals :
        /\ includes(description, envSignals[k].keyword)
        /\ platform \notin envSignals[k].platforms
        /\ \A j \in 1..(k - 1) : ~includes(description, envSignals[j].keyword)}

\* the signals, by index, whose keyword the description has and whose platform is
\* not the runtime platform
mismatchedSignals(description, platform) ==
    {k \in DOMAIN envSignals : /\ includes(description, envSignals[k].keyword)
                               /\ platform \notin envSignals[k].platforms}

checkEnvironmentMismatch(vuln, manifest, platform) ==
    With(toLowerCase(vuln.description), LAMBDA description :
    With(mismatchedSignals(description, platform), LAMBDA hits :
    With(IF manifest = Null THEN "undefined" ELSE manifest.type, LAMBDA manifestType :
        IF hits # {}
        THEN [isFalsePositive |-> TRUE, reason |-> "ENV_MISMATCH",
              details |-> <<"platform",
                            envSignals[CHOOSE a \in hits : \A b \in hits : a <= b].keyword,
                            platform>>,
              confidence |-> "MEDIUM"]
        ELSE IF manifestType = "npm" /\ includes(description, <<"p","y","t","h","o","n">>)
        THEN [isFalsePositive |-> TRUE, reason |-> "ENV_MISMATCH",
              details |-> <<"python-vs-node">>, confidence |-> "MEDIUM"]
        ELSE IF manifestType = "pip" /\ includes(description, <<"n","o","d","e">>)
        THEN [isFalsePositive |-> TRUE, reason |-> "ENV_MISMATCH",
              details |-> <<"node-vs-python">>, confidence |-> "MEDIUM"]
        ELSE IF manifestType = "maven" /\ includes(description, <<"n","o","d","e">>)
        THEN [isFalsePositive |-> TRUE, reason |-> "ENV_MISMATCH",
              details |-> <<"node-vs-jvm">>, confidence |-> "MEDIUM"]
        ELSE noResult("ENV_MISMATCH"))))

\* Object.keys(deps).some(name => normalizePackageName(name) === normalizePackageName(depName))
listedIn(deps, depName) ==
    \E normalizedDep \in {normalizePackageName(depName)} :
        \E k \in DOMAIN deps : normalizePackageName(deps[k].name) = normalizedDep

\* checkDevOnlyDependency without its direct look at the manifest
checkDevOnlyDependency_mapOnly(vuln, manifest, results) ==
    IF manifest = Null THEN noResult("DEV_ONLY")
    ELSE With(reachInfoOf(vuln, results), LAMBDA reachInfo :
            IF reachInfo # Null /\ reachInfo.isDevDependency = "true"
            THEN [isFalsePositive |-> TRUE, reason |-> "DEV_ONLY",
                  details |-> <<"listed-as-devDependency", vuln.dependency>>,
                  confidence |-> "HIGH"]
            ELSE noResult("DEV_ONLY"))

\* checkDevOnlyDependency without its manifest guard, testing
\* `reachInfo?.isDevDependency !== false`
checkDevOnlyDependency_noManifestGuard(vuln, manifest, results) ==
    With(reachInfoOf(vuln, results), LAMBDA reachInfo :
        IF reachInfo # Null /\ reachInfo.isDevDependency # "false"
        THEN [isFalsePositive |-> TRUE, reason |-> "DEV_ONLY",
              details |-> <<"listed-as-devDependency", vuln.dependency>>,
              confidence |-> "HIGH"]
        ELSE noResult("DEV_ONLY"))

checkDevOnlyDependency(vuln, manifest, results) ==
    IF manifest = Null THEN noResult("DEV_ONLY")
    ELSE With(reachInfoOf(vuln, results), LAMBDA reachInfo :
            IF reachInfo # Null /\ reachInfo.isDevDependency = "true"
            THEN [isFalsePositive |-> TRUE, reason |-> "DEV_ONLY",
                  details |-> <<"listed-as-devDependency", vuln.dependency>>,
                  confidence |-> "HIGH"]
            ELSE With(extractPackageName_fp(vuln.dependency), LAMBDA depName :
                    IF listedIn(manifest.devDependencies, depName)
                       /\ ~listedIn(manifest.productionDependencies, depName)
                    THEN [isFalsePositive |-> TRUE, reason |-> "DEV_ONLY",
                          details |-> <<"only-in-devDependencies", depName>>,
                          confidence |-> "HIGH"]
                    ELSE noResult("DEV_ONLY")))

\* checkReachability without the assignment of the record's confidence: the
\* entry keeps the 'LOW' the result is created with
checkReachability_defaultConfidence(vuln, results) ==
    With(reachInfoOf(vuln, results), LAMBDA reachInfo :
        IF reachInfo # Null /\ ~reachInfo.isReachable
        THEN [isFalsePositive |-> TRUE, reason |-> "NON_REACHABLE",
              details |-> <<"reachability", reachInfo.reason>>,
              confidence |-> "LOW"]
        ELSE noResult("NON_REACHABLE"))

checkReachability(vuln, results) ==
    With(reachInfoOf(vuln, results), LAMBDA reachInfo :
        IF reachInfo # Null /\ ~reachInfo.isReachable
        THEN [isFalsePositive |-> TRUE, reason |-> "NON_REACHABLE",
              details |-> <<"reachability", reachInfo.reason>>,
              confidence |-> reachInfo.confidence]
        ELSE noResult("NON_REACHABLE"))

\* checkUnusedTransitive without the test on the record's confidence
checkUnusedTransitive_anyConfidence(vuln, manifest, results) ==
    IF manifest = Null THEN noResult("UNUSED_TRANSITIVE")
    ELSE With(reachInfoOf(vuln, results), LAMBDA reachInfo :
            IF reachInfo # Null /\ reachInfo.isDirect # "true"
            THEN With(extractPackageName_fp(vuln.dependency), LAMBDA depName :
                    IF ~listedIn(manifest.dependencies, depName)
                    THEN [isFalsePositive |-> TRUE, reason |-> "UNUSED_TRANSITIVE",
                          details |-> <<"transitive-not-declared", depName>>,
                          confidence |-> "MEDIUM"]
                    ELSE noResult("UNUSED_TRANSITIVE"))
            ELSE noResult("UNUSED_TRANSITIVE"))

checkUnusedTransitive(vuln, manifest, results) ==
    IF manifest = Null THEN noResult("UNUSED_TRANSITIVE")
    ELSE With(reachInfoOf(vuln, results), LAMBDA reachInfo :
            IF reachInfo # Null /\ reachInfo.isDirect # "true" /\ reachInfo.confidence # "HIGH"
            THEN With(extractPackageName_fp(vuln.dependency), LAMBDA depName :
                    IF ~listedIn(manifest.dependencies, depName)
                    THEN [isFalsePositive |-> TRUE, reason |-> "UNUSED_TRANSITIVE",
                          details |-> <<"transitive-not-declared", depName>>,
                          confidence |-> "MEDIUM"]
                    ELSE noResult("UNUSED_TRANSITIVE"))
            ELSE noResult("UNUSED_TRANSITIVE"))

\* analyzeVulnerability with the development-only check run first
analyzeVulnerability_devOnlyFirst(vuln, manifest, results, platform) ==
    With(checkDevOnlyDependency(vuln, manifest, results), LAMBDA devCheck :
      IF devCheck.isFalsePositive THEN devCheck ELSE
    With(checkVersionMismatch(vuln, manifest), LAMBDA versionCheck :
      IF versionCheck.isFalsePositive THEN versionCheck ELSE
    With(checkEnvironmentMismatch(vuln, manifest, platform), LAMBDA envCheck :
      IF envCheck.isFalsePositive THEN envCheck ELSE
    With(checkReachability(vuln, results), LAMBDA reachabilityCheck :
      IF reachabilityCheck.isFalsePositive THEN reachabilityCheck ELSE
    With(checkUnusedTransitive(vuln, manifest, results), LAMBDA transitiveCheck :
      IF transitiveCheck.isFalsePositive THEN transitiveCheck
      ELSE [isFalsePositive |-> FALSE, reason |-> "null", details |-> << >>,
            confidence |-> "LOW"])))))

\* the chain of analyzeVulnerability: each check runs only when the checks before
\* it did not fire, and the first one that fires is returned
analyzeVulnerability(vuln, manifest, results, platform) ==
    With(checkVersionMismatch(vuln, manifest), LAMBDA versionCheck :
      IF versionCheck.isFalsePositive THEN versionCheck ELSE
    With(checkEnvironmentMismatch(vuln, manifest, platform), LAMBDA envCheck :
      IF envCheck.isFalsePositive THEN envCheck ELSE
    With(checkDevOnlyDependency(vuln, manifest, results), LAMBDA devCheck :
      IF devCheck.isFalsePositive THEN devCheck ELSE
    With(checkReachability(vuln, results), LAMBDA reachabilityCheck :
      IF reachabilityCheck.isFalsePositive THEN reachabilityCheck ELSE
    With(checkUnusedTransitive(vuln, manifest, results), LAMBDA transitiveCheck :
      IF transitiveCheck.isFalsePositive THEN transitiveCheck
      ELSE [isFalsePositive |-> FALSE, reason |-> "null", details |-> << >>,
            confidence |-> "LOW"])))))

formatDependency(dependency, version) ==
    IF version # << >> /\ version # Unknown THEN dependency \o <<"@">> \o version
    ELSE dependency

\* detectFalsePositives pushing one entry for every check that fires
falsePositiveEntries_everyCheck(vuln, manifest, results, platform) ==
    With(<<checkVersionMismatch(vuln, manifest),
           checkEnvironmentMismatch(vuln, manifest, platform),
           checkDevOnlyDependency(vuln, manifest, results),
           checkReachability(vuln, results),
           checkUnusedTransitive(vuln, manifest, results)>>, LAMBDA checks :
    With(SelectSeq(checks, LAMBDA c : c.isFalsePositive), LAMBDA fired :
        [k \in DOMAIN fired |->
            [cve_id |-> vuln.cveId,
             dependency |-> formatDependency(vuln.dependency, vuln.version),
             reason |-> fired[k].reason,
             details |-> fired[k].details,
             confidence |-> fired[k].confidence,
             originalVuln |-> vuln]]))

\* what one iteration of detectFalsePositives pushes: one entry, or nothing
falsePositiveEntries(vuln, manifest, results, platform) ==
    With(analyzeVulnerability(vuln, manifest, results, platform), LAMBDA fpResult :
        IF fpResult.isFalsePositive
        THEN << [cve_id |-> vuln.cveId,
                 dependency |-> formatDependency(vuln.dependency, vuln.version),
                 reason |-> fpResult.reason,
                 details |-> fpResult.details,
                 confidence |-> fpResult.confidence,
                 originalVuln |-> vuln] >>
        ELSE << >>)

-----------------------------------------------------------------------------
(* analyzers/vulnerabilityExtractor.js and services/jsonGenerator.js       *)

\* extractVulnerabilities: the findings for which detectFalsePositives emitted no
\* entry, in input order
extractVulnerabilities(findings, fps) ==
    With({fps[k].originalVuln : k \in DOMAIN fps}, LAMBDA flagged :
    With(SelectSeq(findings, LAMBDA v : v \notin flagged), LAMBDA kept :
        [k \in DOMAIN kept |->
            [cve_id |-> kept[k].cveId,
             dependency |-> formatDependency(kept[k].dependency, kept[k].version),
             severity |-> kept[k].severity]]))

CRITICAL == <<"C","R","I","T","I","C","A","L">>
HIGH == <<"H","I","G","H">>
MEDIUM == <<"M","E","D","I","U","M">>
LOW == <<"L","O","W">>

WeightCritical == 25
WeightHigh == 15
WeightMedium == 5
WeightLow == 1
WeightDefault == 1
RiskCap == 100

\* weights[severity] || 1
weightOf(severity) ==
    With(toUpperCase(IF severity = << >> THEN LOW ELSE severity), LAMBDA sev :
        IF sev = CRITICAL THEN WeightCritical
        ELSE IF sev = HIGH THEN WeightHigh
        ELSE IF sev = MEDIUM THEN WeightMedium
        ELSE IF sev = LOW THEN WeightLow
        ELSE WeightDefault)

\* the loop of calculateRiskScore, from vulnerability k
RECURSIVE sumWeights(_, _)
sumWeights(vulns, k) ==
    IF k > Len(vulns) THEN 0 ELSE weightOf(vulns[k].severity) + sumWeights(vulns, k + 1)

\* calculateRiskScore without the Math.min
calculateRiskScore_uncapped(vulns) ==
    IF Len(vulns) = 0 THEN 0 ELSE sumWeights(vulns, 1)

calculateRiskScore(vulns) ==
    IF Len(vulns) = 0 THEN 0
    ELSE With(sumWeights(vulns, 1), LAMBDA score : Min(RiskCap, score))

\* JavaScript numbers are IEEE 754 doubles: 53 significant bits, every operation
\* rounded to the nearest, ties to even.  The doubles of calculateFpRate are held
\* as whole numbers of units of 2^-(z + 54), z being the number of zero bits the
\* binary fraction fpCount / total starts with; a whole number is four limbs of 18
\* bits, most significant first.
SignificandBits == 53

LimbBase == 2 ^ 18

\* the limbs brought back below LimbBase, carries moved upwards
carryLimbs(n) ==
    With(n[4], LAMBDA l4 :
    With(n[3] + l4 \div LimbBase, LAMBDA l3 :
    With(n[2] + l3 \div LimbBase, LAMBDA l2 :
        <<n[1] + l2 \div LimbBase, l2 % LimbBase, l3 % LimbBase, l4 % LimbBase>>)))

\* the number of bits of a natural number
RECURSIVE bitLength(_)
bitLength(n) == IF n = 0 THEN 0 ELSE 1 + bitLength(n \div 2)

\* the number of bits of a limb number
limbsBitLength(n) ==
    IF n[1] > 0 THEN 54 + bitLength(n[1])
    ELSE IF n[2] > 0 THEN 36 + bitLength(n[2])
    ELSE IF n[3] > 0 THEN 18 + bitLength(n[3])
    ELSE bitLength(n[4])

\* a limb number that has more than 53 bits, fewer than 18 of them to drop, rounded
\* to 53 significant bits: to the nearest, ties to even; sticky says that
\* something nonzero lies below the number
roundToDouble(n, sticky) ==
    With(limbsBitLength(n) - SignificandBits, LAMBDA drop :
        IF drop <= 0 THEN n
        ELSE With(n[4] % (2 ^ drop), LAMBDA low :
             With(<<low \div (2 ^ (drop - 1)),
                    sticky \/ low % (2 ^ (drop - 1)) # 0,
                    (n[4] \div (2 ^ drop)) % 2>>, LAMBDA b :
                carryLimbs(<<n[1], n[2], n[3],
                             n[4] - low + IF b[1] = 1 /\ (b[2] \/ b[3] = 1)
                                          THEN 2 ^ drop ELSE 0>>))))

\* the number of zero bits the binary fraction a / d (0 < a < d) starts with
RECURSIVE leadingZeroBits(_, _)
leadingZeroBits(a, d) == IF 2 * a >= d THEN 0 ELSE 1 + leadingZeroBits(2 * a, d)

\* fpCount / total as a double, for 0 < a < d: the first 54 bits of the fraction
\* from its first 1 on, by long division limb by limb, then rounded
divideDouble(a, d) ==
    With(a * (2 ^ leadingZeroBits(a, d)), LAMBDA r0 :
    With((r0 * LimbBase) % d, LAMBDA r1 :
    With((r1 * LimbBase) % d, LAMBDA r2 :
        roundToDouble(<<0, (r0 * LimbBase) \div d, (r1 * LimbBase) \div d,
                        (r2 * LimbBase) \div d>>,
                      (r2 * LimbBase) % d # 0))))

\* x * 100 as a double
timesHundred(x) ==
    roundToDouble(carryLimbs(<<x[1] * 100, x[2] * 100, x[3] * 100, x[4] * 100>>), FALSE)

\* Math.round(y) = floor(y + 0.5) for y in units of 2^-(z + 54): the integer part
\* plus the first fractional bit
mathRound(y, z) ==
    ((y[1] * LimbBase + y[2]) \div (2 ^ (z + 17)) + 1) \div 2

\* Math.round((fpCount / total) * 100), in double arithmetic
calculateFpRate(fpCount, trueCount) ==
    With(fpCount + trueCount, LAMBDA total :
        IF total = 0 THEN 0
        ELSE IF fpCount = 0 THEN 0
        ELSE IF fpCount = total THEN 100
        ELSE mathRound(timesHundred(divideDouble(fpCount, total)),
                       leadingZeroBits(fpCount, total)))

\* countSeverity comparing the severity as it is written with the upper-case name
\* of the bucket
countSeverity_caseSensitive(vulns, bucket) ==
    Len(SelectSeq(vulns, LAMBDA v :
        (IF v.severity = << >> THEN <<"L","O","W">> ELSE v.severity) = toUpperCase(bucket)))

\* the number of true vulnerabilities counted in one severity bucket
countSeverity(vulns, bucket) ==
    Len(SelectSeq(vulns, LAMBDA v :
        toLowerCase(IF v.severity = << >> THEN <<"l","o","w">> ELSE v.severity) = bucket))

severityBreakdown(vulns) ==
    [critical |-> countSeverity(vulns, <<"c","r","i","t","i","c","a","l">>),
     high |-> countSeverity(vulns, <<"h","i","g","h">>),
     medium |-> countSeverity(vulns, <<"m","e","d","i","u","m">>),
     low |-> countSeverity(vulns, <<"l","o","w">>)]

\* fpReasonCounts: the number of false positives per reason that occurs
reasonCounts(fps) ==
    With({fps[k].reason : k \in DOMAIN fps}, LAMBDA reasons :
        [r \in reasons |-> Cardinality({k \in DOMAIN fps : fps[k].reason = r})])

generateSummary(fps, vulns) ==
    With(severityBreakdown(vulns), LAMBDA severityCounts :
        [total_scanned |-> Len(fps) + Len(vulns),
         false_positive_rate |-> calculateFpRate(Len(fps), Len(vulns)),
         severity_breakdown |-> severityCounts,
         false_positive_reasons |-> reasonCounts(fps),
         risk_score |-> calculateRiskScore(vulns),
         requires_immediate_action |-> severityCounts.critical > 0 \/ severityCounts.high > 0])

generateJsonOutput(fps, vulns) ==
    [false_positives |->
        [k \in DOMAIN fps |-> [cve_id |-> fps[k].cve_id, dependency |-> fps[k].dependency,
                               reason |-> fps[k].reason, details |-> fps[k].details,
                               confidence |-> fps[k].confidence]],
     true_vulnerabilities |-> vulns,
     metadata |-> [total_vulnerabilities_scanned |-> Len(fps) + Len(vulns),
                   false_positives_identified |-> Len(fps),
                   true_vulnerabilities_found |-> Len(vulns)],
     summary |-> generateSummary(fps, vulns)]

\* the errors validateJsonOutput pushes for one false positive, in order
falsePositiveErrors(fp) ==
    (IF fp.cve_id = "" THEN <<"False positive missing cve_id">> ELSE << >>)
    \o (IF fp.dependency = << >> THEN <<"False positive missing dependency">> ELSE << >>)
    \o (IF fp.reason = "" THEN <<"False positive missing reason">> ELSE << >>)

\* the errors validateJsonOutput pushes for one true vulnerability, in order
vulnerabilityErrors(vuln) ==
    (IF vuln.cve_id = "" THEN <<"Vulnerability missing cve_id">> ELSE << >>)
    \o (IF vuln.dependency = << >> THEN <<"Vulnerability missing dependency">> ELSE << >>)
    \o (IF vuln.severity = << >> THEN <<"Vulnerability missing severity">> ELSE << >>)

\* the errors of the entries k.. of false_positives (isFp) or true_vulnerabilities
RECURSIVE errorsFrom(_, _, _)
errorsFrom(entries, k, isFp) ==
    IF k > Len(entries) THEN << >>
    ELSE (IF isFp THEN falsePositiveErrors(entries[k]) ELSE vulnerabilityErrors(entries[k]))
            \o errorsFrom(entries, k + 1, isFp)

\* validateJsonOutput on an output generateJsonOutput built: both arrays are
\* arrays, and metadata has its analysis_timestamp and project_name, so the
\* errors are those of the entries
validateJsonOutput(output) ==
    With(errorsFrom(output.false_positives, 1, TRUE)
            \o errorsFrom(output.true_vulnerabilities, 1, FALSE), LAMBDA errors :
        [valid |-> Len(errors) = 0, errors |-> errors])

-----------------------------------------------------------------------------
(* The POST /analyze handler, from the parsed inputs to the JSON output    *)

CveIds == {"CVE-1", "CVE-2"}

emptyResults == [directDependencies |-> << >>, transitiveDependencies |-> << >>,
                 unreachableDependencies |-> << >>,
                 reachabilityMap |-> [c \in CveIds |-> Null]]

\* the values App's useState hooks start with
mountedApp ==
    [files |-> [owaspReport |-> Null, dependencyManifest |-> Null],
     analysisResult |-> Null,
     llmReport |-> Null,
     isAnalyzing |-> FALSE,
     isGeneratingReport |-> FALSE,
     error |-> "null",
     activeTab |-> "upload"]

Start(findings, manifest, cg, platform) ==
    /\ vulnerabilities = findings
    /\ manifestData = manifest
    /\ callGraph = cg
    /\ runtimePlatform = platform
    /\ pc = "reach"
    /\ idx = 1
    /\ reachabilityResults = emptyResults
    /\ falsePositives = << >>
    /\ trueVulnerabilities = << >>
    /\ jsonOutput = Null
    /\ reportPc = "idle"
    /\ attempt = 0
    /\ lastError = "null"
    /\ slept = << >>
    /\ llmReport = Null
    /\ app = mountedApp
    /\ requests = {}

\* analyzeReachability: one iteration of its for-of loop, or its return
AnalyzeReachability ==
    /\ pc = "reach"
    /\ IF idx <= Len(vulnerabilities)
       THEN /\ reachabilityResults' = analyzeOne(reachabilityResults, vulnerabilities[idx],
                                                   manifestData, callGraph)
            /\ idx' = idx + 1
            /\ pc' = pc
       ELSE /\ pc' = "detect"
            /\ idx' = 1
            /\ UNCHANGED reachabilityResults
    /\ UNCHANGED <<vulnerabilities, manifestData, callGraph, runtimePlatform,
                   falsePositives, trueVulnerabilities, jsonOutput,
                   reportPc, attempt, lastError, slept, llmReport>>
    /\ UNCHANGED clientVars

\* detectFalsePositives lower-casing the description on the finding itself
\* (vuln.description = vuln.description.toLowerCase()) before it runs the checks
DetectFalsePositives_lowersInPlace ==
    /\ pc = "detect"
    /\ IF idx <= Len(vulnerabilities)
       THEN /\ falsePositives' = falsePositives \o
                    falsePositiveEntries(vulnerabilities[idx], manifestData,
                                         reachabilityResults, runtimePlatform)
            /\ vulnerabilities' = [vulnerabilities EXCEPT
                                      ![idx].description = toLowerCase(@)]
            /\ idx' = idx + 1
            /\ pc' = pc
       ELSE /\ pc' = "extract"
            /\ idx' = 1
            /\ UNCHANGED <<falsePositives, vulnerabilities>>
    /\ UNCHANGED <<manifestData, callGraph, runtimePlatform,
                   reachabilityResults, trueVulnerabilities, jsonOutput,
                   reportPc, attempt, lastError, slept, llmReport>>
    /\ UNCHANGED clientVars

\* detectFalsePositives: one iteration of its for-of loop, or its return
DetectFalsePositives ==
    /\ pc = "detect"
    /\ IF idx <= Len(vulnerabilities)
       THEN /\ falsePositives' = falsePositives \o
                    falsePositiveEntries(vulnerabilities[idx], manifestData,
                                         reachabilityResults, runtimePlatform)
            /\ idx' = idx + 1
            /\ pc' = pc
       ELSE /\ pc' = "extract"
            /\ idx' = 1
            /\ UNCHANGED falsePositives
    /\ UNCHANGED <<vulnerabilities, manifestData, callGraph, runtimePlatform,
                   reachabilityResults, trueVulnerabilities, jsonOutput,
                   reportPc, attempt, lastError, slept, llmReport>>
    /\ UNCHANGED clientVars

ExtractVulnerabilities ==
    /\ pc = "extract"
    /\ trueVulnerabilities' = extractVulnerabilities(vulnerabilities, falsePositives)
    /\ pc' = "generate"
    /\ UNCHANGED <<vulnerabilities, manifestData, callGraph, runtimePlatform, idx,
                   reachabilityResults, falsePositives, jsonOutput,
                   reportPc, attempt, lastError, slept, llmReport>>
    /\ UNCHANGED clientVars

GenerateJsonOutput ==
    /\ pc = "generate"
    /\ jsonOutput' = generateJsonOutput(falsePositives, trueVulnerabilities)
    /\ pc' = "done"
    /\ UNCHANGED <<vulnerabilities, manifestData, callGraph, runtimePlatform, idx,
                   reachabilityResults, falsePositives, trueVulnerabilities,
                   reportPc, attempt, lastError, slept, llmReport>>
    /\ UNCHANGED clientVars

-----------------------------------------------------------------------------
(* services/groqService.js: generateLLMReport, which POST /full-analysis   *)
(* awaits once the JSON output is built                                    *)

maxRetries == 3

EmptyResponse == "Empty response from Groq API"
ServiceError == "service error"

\* what one call of client.chat.completions.create can do: deliver content,
\* deliver a completion without content, or throw
ServiceOutcomes == {"content", "empty", "throws"}

\* Math.pow(2, attempt) * 1000
backoffDelay(n) == (2 ^ n) * 1000

\* the report generateLLMReport returns from a completion with content
serviceReport ==
    [content |-> "responseContent", model |-> "llama-3.3-70b-versatile",
     tokens_used |-> "completion.usage.total_tokens", error |-> "null"]

\* generateFallbackReport: computed from the analysis alone
generateFallbackReport(analysisJson, error) ==
    [content |-> [vulns |-> Len(analysisJson.true_vulnerabilities),
                  fps |-> Len(analysisJson.false_positives),
                  total |-> analysisJson.metadata.total_vulnerabilities_scanned,
                  severityCounts |-> analysisJson.summary.severity_breakdown],
     model |-> "fallback",
     tokens_used |-> 0,
     error |-> IF error = "null" THEN "Unknown error" ELSE error]

pipelineVars == <<vulnerabilities, manifestData, callGraph, runtimePlatform, pc, idx,
                  reachabilityResults, falsePositives, trueVulnerabilities, jsonOutput>>

\* the entry of generateLLMReport: getGroqClient() returns the client, or throws
\* when no valid GROQ_API_KEY is configured; the call stands before the try block
GetGroqClient ==
    /\ pc = "done"
    /\ reportPc = "idle"
    /\ \E configured \in BOOLEAN :
          IF configured
          THEN reportPc' = "attempt" /\ attempt' = 1
          ELSE reportPc' = "threw" /\ attempt' = attempt
    /\ UNCHANGED <<lastError, slept, llmReport>>
    /\ UNCHANGED pipelineVars
    /\ UNCHANGED clientVars

\* one iteration of the retry loop: the call, and either the return of its
\* content or the catch block with its sleep; after the last failed iteration
\* the loop ends and the fallback report is returned
CallReportService ==
    /\ reportPc = "attempt"
    /\ attempt <= maxRetries
    /\ \E outcome \in ServiceOutcomes :
          IF outcome = "content"
          THEN /\ llmReport' = serviceReport
               /\ reportPc' = "returned"
               /\ UNCHANGED <<attempt, lastError, slept>>
          ELSE /\ lastError' = (IF outcome = "empty" THEN EmptyResponse ELSE ServiceError)
               /\ slept' = (IF attempt < maxRetries THEN Append(slept, backoffDelay(attempt))
                            ELSE slept)
               /\ attempt' = attempt + 1
               /\ IF attempt < maxRetries
                  THEN reportPc' = reportPc /\ llmReport' = llmReport
                  ELSE /\ reportPc' = "returned"
                       /\ llmReport' = generateFallbackReport(jsonOutput, lastError')
    /\ UNCHANGED pipelineVars
    /\ UNCHANGED clientVars

Next == \/ AnalyzeReachability
        \/ DetectFalsePositives
        \/ ExtractVulnerabilities
        \/ GenerateJsonOutput
        \/ GetGroqClient
        \/ CallReportService

-----------------------------------------------------------------------------
(* Inputs                                                                  *)

lodash == <<"l","o","d","a","s","h">>
jest == <<"j","e","s","t">>
fsevents == <<"f","s","e","v","e","n","t","s">>
leftpad == <<"l","e","f","t","-","p","a","d">>

v4_17_21 == <<"4",".","1","7",".","2","1">>
v4_17_15 == <<"4",".","1","7",".","1","5">>
v29_0_0 == <<"2","9",".","0",".","0">>
v1_0_0 == <<"1",".","0",".","0">>
v1_5_0 == <<"1",".","5",".","0">>
v2_0_0 == <<"2",".","0",".","0">>

pathProd == <<"s","r","c","/","i","n","d","e","x",".","j","s">>
pathTest == <<"s","r","c","/","t","e","s","t","/","f","i","x","t","u","r","e","s","/","v","u","l","n",".","j","s">>
descLinux == <<"a","f","f","e","c","t","s"," ","l","i","n","u","x"," ","o","n","l","y">>

\* the package.json of an npm project, as parsePackageJson returns it:
\* lodash in dependencies, jest in devDependencies, fsevents in optionalDependencies
manifestNpm ==
    [type |-> "npm",
     dependencies |-> << [name |-> lodash, version |-> v4_17_21, isDev |-> FALSE, isOptional |-> FALSE],
                         [name |-> jest, version |-> v29_0_0, isDev |-> TRUE, isOptional |-> FALSE],
                         [name |-> fsevents, version |-> v1_0_0, isDev |-> FALSE, isOptional |-> TRUE] >>,
     productionDependencies |-> << [name |-> lodash, version |-> v4_17_21, isDev |-> FALSE, isOptional |-> FALSE] >>,
     devDependencies |-> << [name |-> jest, version |-> v29_0_0, isDev |-> FALSE, isOptional |-> FALSE] >>]

main == <<"m","a","i","n">>
util == <<"u","t","i","l">>
\* a call graph that references none of the dependencies
cgNone == [nodes |-> <<main, util>>, edges |-> << [from |-> main, to |-> util] >>]
\* a call graph whose edges call into every dependency
cgEdges == [nodes |-> <<main>>,
            edges |-> << [from |-> main, to |-> lodash], [from |-> main, to |-> jest],
                         [from |-> main, to |-> fsevents], [from |-> main, to |-> leftpad] >>]
\* a call graph that declares every dependency as a node and never calls one
cgNodes == [nodes |-> <<main, lodash, jest, fsevents, leftpad>>, edges |-> << >>]

CallGraphs == {Null, cgNone, cgEdges, cgNodes}
Manifests == {Null, manifestNpm}
Platforms == {"linux", "win32"}

Finding(cve, dep, ver, sev, desc, path) ==
    [cveId |-> cve, dependency |-> dep, version |-> ver, severity |-> sev,
     description |-> desc, filePath |-> path]

\* the findings the lists of Spec are drawn from
Catalogue ==
    { Finding("CVE-1", lodash, v4_17_21, HIGH, << >>, pathProd),
      Finding("CVE-1", jest, v29_0_0, CRITICAL, << >>, pathProd),
      Finding("CVE-2", lodash, v1_0_0, MEDIUM, << >>, pathProd),
      Finding("CVE-2", leftpad, << >>, << >>, << >>, pathTest),
      Finding("CVE-1", leftpad, v1_0_0, LOW, descLinux, pathProd),
      Finding("CVE-2", fsevents, v1_0_0, HIGH, << >>, << >>),
      Finding("CVE-1", lodash, v4_17_21, HIGH, << >>, pathTest),
      Finding("CVE-2", jest, v1_0_0, CRITICAL, descLinux, << >>) }

MaxFindings == 2

\* all sequences over S of length at most n
SeqsUpTo(S, n) == UNION {[1..m -> S] : m \in 0..n}

Init ==
    \E findings \in SeqsUpTo(Catalogue, MaxFindings), manifest \in Manifests,
       cg \in CallGraphs, platform \in Platforms :
        Start(findings, manifest, cg, platform)

Spec == Init /\ [][Next]_vars

-----------------------------------------------------------------------------
(* One finding over every combination of its fields, analysed alone or     *)
(* followed by findings that report the same CVE                           *)

v1_10_0 == <<"1",".","1","0",".","0">>
v1_9_0 == <<"1",".","9",".","0">>
v1_5_0_beta_2 == <<"1",".","5",".","0","-","b","e","t","a",".","2">>
UNKNOWN == <<"U","N","K","N","O","W","N">>

Dependencies == {lodash, jest, fsevents, leftpad}
ReportedVersions == {v4_17_21, v29_0_0, v1_0_0, << >>}
ReportedSeverities == {HIGH, << >>}
Descriptions == {<< >>, descLinux}
FilePaths == {<< >>, pathProd, pathTest}

Findings ==
    {Finding("CVE-1", dep, ver, sev, desc, path) :
        dep \in Dependencies, ver \in ReportedVersions, sev \in ReportedSeverities,
        desc \in Descriptions, path \in FilePaths}

Companions ==
    { Finding("CVE-1", lodash, v4_17_21, HIGH, << >>, pathProd),
      Finding("CVE-1", jest, v29_0_0, HIGH, << >>, pathTest) }

MaxCompanions == 1

InitFinding ==
    \E finding \in Findings, others \in SeqsUpTo(Companions, MaxCompanions),
       manifest \in Manifests, cg \in CallGraphs, platform \in Platforms :
        Start(<<finding>> \o others, manifest, cg, platform)

SpecFinding == InitFinding /\ [][Next]_vars

-----------------------------------------------------------------------------
(* One finding of a production dependency, over the reported version and   *)
(* the version the manifest declares                                       *)

DeclaredVersions ==
    {v1_0_0, v1_5_0, v2_0_0, v4_17_15, v4_17_21, v1_9_0, v1_10_0, v1_5_0_beta_2,
     <<"1",".","5">>, <<"2">>, <<"4",".","1","7",".","2">>, <<"1">>}

\* a package.json that declares lodash alone, at the given version
manifestDeclaring(version) ==
    [type |-> "npm",
     dependencies |-> << [name |-> lodash, version |-> version, isDev |-> FALSE, isOptional |-> FALSE] >>,
     productionDependencies |-> << [name |-> lodash, version |-> version, isDev |-> FALSE, isOptional |-> FALSE] >>,
     devDependencies |-> << >>]

InitVersion ==
    \E reported \in DeclaredVersions \cup {Unknown}, declared \in DeclaredVersions,
       cg \in {Null, cgEdges} :
        Start(<<Finding("CVE-1", lodash, reported, HIGH, << >>, pathProd)>>,
              manifestDeclaring(declared), cg, "linux")

SpecVersion == InitVersion /\ [][Next]_vars

-----------------------------------------------------------------------------
(* Findings that are all true vulnerabilities, over their severities       *)

Severities == {CRITICAL, HIGH, MEDIUM, LOW, UNKNOWN, << >>}

MaxCritical == 5
MaxOthers == 2

InitRisk ==
    \E criticals \in 0..MaxCritical, others \in SeqsUpTo(Severities, MaxOthers) :
        Start([k \in 1..criticals |-> Finding("CVE-1", lodash, v4_17_21, CRITICAL, << >>, pathProd)]
                \o [k \in DOMAIN others |-> Finding("CVE-2", lodash, v4_17_21, others[k], << >>, pathProd)],
              Null, Null, "linux")

SpecRisk == InitRisk /\ [][Next]_vars

-----------------------------------------------------------------------------
(* Properties                                                              *)

\* the reachability loop has just stored the record of a finding
Analysed == pc = "reach" /\ idx > 1
lastVuln == vulnerabilities[idx - 1]
lastInfo == reachabilityResults.reachabilityMap[lastVuln.cveId]

\* detectFalsePositives has been through finding k
Detected(k) == (pc = "detect" /\ k < idx) \/ pc \in {"extract", "generate", "done"}

\* the false-positive entries emitted for a finding
entriesOf(vuln) ==
    {falsePositives[j] : j \in {i \in DOMAIN falsePositives : falsePositives[i].originalVuln = vuln}}

Flagged(k) == entriesOf(vulnerabilities[k]) # {}

ReasonCodes == {"VERSION_MISMATCH", "NON_REACHABLE", "ENV_MISMATCH", "UNUSED_TRANSITIVE", "DEV_ONLY"}

\* C1: every finding ends in exactly one bucket.  The detector emits at most one
\* entry per finding, each with a reason code; after the extraction the flagged
\* findings are exactly the false positives and the others exactly the true
\* vulnerabilities; the total the output reports is the number of false positives
\* plus the number of true vulnerabilities, and is the number of findings.
PartitionCompleteness ==
    /\ pc = "detect" => Len(falsePositives) <= idx - 1
    /\ \A j \in DOMAIN falsePositives : falsePositives[j].reason \in ReasonCodes
    /\ pc \in {"generate", "done"} =>
          /\ Len(falsePositives) = Cardinality({k \in DOMAIN vulnerabilities : Flagged(k)})
          /\ Len(trueVulnerabilities) = Cardinality({k \in DOMAIN vulnerabilities : ~Flagged(k)})
          /\ Len(falsePositives) + Len(trueVulnerabilities) = Len(vulnerabilities)
    /\ pc = "done" =>
          /\ jsonOutput.metadata.total_vulnerabilities_scanned = Len(vulnerabilities)
          /\ jsonOutput.metadata.total_vulnerabilities_scanned =
                Len(jsonOutput.false_positives) + Len(jsonOutput.true_vulnerabilities)
          /\ jsonOutput.metadata.false_positives_identified = Len(falsePositives)
          /\ jsonOutput.metadata.true_vulnerabilities_found = Len(trueVulnerabilities)

\* two findings, one in each bucket, in the finished output
PartitionWitness ==
    /\ pc = "done"
    /\ Len(vulnerabilities) = 2
    /\ Len(jsonOutput.false_positives) = 1
    /\ Len(jsonOutput.true_vulnerabilities) = 1

\* the manifest lists the finding's dependency under devDependencies and not under
\* productionDependencies
DevOnlyListed(vuln) ==
    /\ manifestData # Null
    /\ listedIn(manifestData.devDependencies, extractPackageName_fp(vuln.dependency))
    /\ ~listedIn(manifestData.productionDependencies, extractPackageName_fp(vuln.dependency))

\* C2 as stated: a finding whose dependency the manifest lists as development-only
\* is a false positive with reason DEV_ONLY and confidence HIGH, whatever its
\* severity, reported version, description, file path and the call graph.
DevOnlyDominance ==
    \A k \in DOMAIN vulnerabilities :
        (Detected(k) /\ DevOnlyListed(vulnerabilities[k])) =>
            /\ Flagged(k)
            /\ \A e \in entriesOf(vulnerabilities[k]) :
                  e.reason = "DEV_ONLY" /\ e.confidence = "HIGH"

\* C2: a finding whose dependency the manifest lists as development-only is
\* always a false positive, and it has reason DEV_ONLY and confidence HIGH whenever
\* neither the version-mismatch check nor the environment-mismatch check fires
\* for it, whatever its severity, file path and the call graph.
DevOnlyDominanceAfterEarlierChecks ==
    \A k \in DOMAIN vulnerabilities :
        (Detected(k) /\ DevOnlyListed(vulnerabilities[k])) =>
            /\ Flagged(k)
            /\ ( /\ ~checkVersionMismatch(vulnerabilities[k], manifestData).isFalsePositive
                 /\ ~checkEnvironmentMismatch(vulnerabilities[k], manifestData,
                                              runtimePlatform).isFalsePositive )
               => \A e \in entriesOf(vulnerabilities[k]) :
                     e.reason = "DEV_ONLY" /\ e.confidence = "HIGH"

\* a development-only dependency reported in a test path, called in the call graph
DevOnlyWitness ==
    /\ pc = "done"
    /\ callGraph = cgEdges
    /\ DevOnlyListed(vulnerabilities[1])
    /\ vulnerabilities[1].filePath = pathTest
    /\ \E e \in entriesOf(vulnerabilities[1]) : e.reason = "DEV_ONLY" /\ e.confidence = "HIGH"

\* C3: with a manifest, a finding whose file path classifies as non_prod is stored
\* with isReachable = FALSE, whatever the dependency, its manifest membership and
\* the call graph.
NonProdPathUnreachable ==
    (Analysed /\ manifestData # Null /\ classifyPath(lastVuln.filePath) = "non_prod")
        => lastInfo.isReachable = FALSE

\* a production dependency the call graph calls into, reported in a test path
NonProdPathWitness ==
    /\ Analysed
    /\ manifestData # Null
    /\ callGraph = cgEdges
    /\ lastVuln.dependency = lodash
    /\ lastVuln.filePath = pathTest
    /\ lastInfo.isReachable = FALSE

\* C4 as stated: a finding whose file path holds a non-production marker segment
\* is stored with isReachable = FALSE and confidence HIGH, with or without a
\* manifest and whatever its manifest membership.
NonProdPathUnreachableHigh ==
    (Analysed /\ classifyPath(lastVuln.filePath) = "non_prod")
        => (lastInfo.isReachable = FALSE /\ lastInfo.confidence = "HIGH")

\* C8: without manifest and call graph, a finding with an empty file path is
\* stored reachable, with confidence LOW, the reason 'No manifest provided -
\* reachability assumed', isDirect and isDevDependency null and the path
\* classification unknown; a finding whose path classifies as prod gets the same
\* isReachable, confidence and reason.
NoEvidenceDefault ==
    (Analysed /\ manifestData = Null /\ callGraph = Null) =>
        /\ lastVuln.filePath = << >> =>
              /\ lastInfo.isReachable = TRUE
              /\ lastInfo.confidence = "LOW"
              /\ lastInfo.reason = "No manifest provided - reachability assumed"
              /\ lastInfo.isDirect = "null"
              /\ lastInfo.isDevDependency = "null"
              /\ lastInfo.pathClassification = "unknown"
        /\ classifyPath(lastVuln.filePath) = "prod" =>
              /\ lastInfo.isReachable = TRUE
              /\ lastInfo.confidence = "LOW"
              /\ lastInfo.reason = "No manifest provided - reachability assumed"

\* a finding with an empty path analysed without manifest and call graph
NoEvidenceWitness ==
    /\ Analysed
    /\ manifestData = Null
    /\ callGraph = Null
    /\ lastVuln.filePath = << >>
    /\ lastInfo.isReachable = TRUE
    /\ lastInfo.confidence = "LOW"

\* the i-th dot-separated part of a version as a number: its digits, 0 when the
\* part is missing or holds no digit
NumericPart(v, i) ==
    IF i <= Len(split(v, ".")) THEN parseIntDigits(split(v, ".")[i]) ELSE 0

\* a is numerically greater than b, component by component
NumericallyGreater(a, b) ==
    \E i \in 1..Max(Len(split(a, ".")), Len(split(b, "."))) :
        /\ NumericPart(a, i) > NumericPart(b, i)
        /\ \A j \in 1..(i - 1) : NumericPart(a, j) = NumericPart(b, j)

\* the version the manifest declares for the dependency of SpecVersion
declaredVersion == manifestData.dependencies[1].version

\* C5: a version-mismatch false positive has confidence HIGH exactly when the
\* version the manifest declares is numerically greater, component by component,
\* than the reported one, and MEDIUM otherwise: manifest 2.0.0 against reported
\* 1.5.0 and 4.17.21 against 4.17.15 give HIGH, 1.0.0 against 1.5.0 gives MEDIUM.
VersionMismatchDirection ==
    /\ \A j \in DOMAIN falsePositives :
          falsePositives[j].reason = "VERSION_MISMATCH" =>
              falsePositives[j].confidence =
                  IF NumericallyGreater(declaredVersion, falsePositives[j].originalVuln.version)
                  THEN "HIGH" ELSE "MEDIUM"
    /\ \A k \in DOMAIN vulnerabilities :
          Detected(k) =>
              /\ (declaredVersion = v2_0_0 /\ vulnerabilities[k].version = v1_5_0) =>
                    \E e \in entriesOf(vulnerabilities[k]) :
                        e.reason = "VERSION_MISMATCH" /\ e.confidence = "HIGH"
              /\ (declaredVersion = v1_0_0 /\ vulnerabilities[k].version = v1_5_0) =>
                    \E e \in entriesOf(vulnerabilities[k]) :
                        e.reason = "VERSION_MISMATCH" /\ e.confidence = "MEDIUM"
              /\ (declaredVersion = v4_17_21 /\ vulnerabilities[k].version = v4_17_15) =>
                    \E e \in entriesOf(vulnerabilities[k]) :
                        e.reason = "VERSION_MISMATCH" /\ e.confidence = "HIGH"

\* the manifest declares 4.17.21, the report says 4.17.15: flagged with HIGH
VersionMismatchWitness ==
    /\ pc = "done"
    /\ declaredVersion = v4_17_21
    /\ vulnerabilities[1].version = v4_17_15
    /\ jsonOutput.false_positives[1].reason = "VERSION_MISMATCH"
    /\ jsonOutput.false_positives[1].confidence = "HIGH"

\* the number of true vulnerabilities of one severity
numberOf(severity) ==
    Cardinality({k \in DOMAIN trueVulnerabilities : trueVulnerabilities[k].severity = severity})

\* C6: the risk score is the smaller of 100 and the sum, over the true
\* vulnerabilities, of 25 per CRITICAL, 15 per HIGH, 5 per MEDIUM, 1 per LOW and 1
\* per other or missing severity; five CRITICAL true vulnerabilities score 100.
RiskScoreCapped ==
    pc = "done" =>
        /\ jsonOutput.summary.risk_score =
              Min(100, 25 * numberOf(CRITICAL) + 15 * numberOf(HIGH) + 5 * numberOf(MEDIUM)
                       + (Len(trueVulnerabilities) - numberOf(CRITICAL) - numberOf(HIGH)
                            - numberOf(MEDIUM)))
        /\ jsonOutput.summary.risk_score \in 0..100
        /\ (numberOf(CRITICAL) = 5 /\ Len(trueVulnerabilities) = 5) =>
              jsonOutput.summary.risk_score = 100

\* five CRITICAL true vulnerabilities and nothing else
RiskScoreWitness ==
    /\ pc = "done"
    /\ Len(trueVulnerabilities) = 5
    /\ numberOf(CRITICAL) = 5
    /\ jsonOutput.summary.risk_score = 100

\* C7: without a manifest no false positive has reason DEV_ONLY or
\* VERSION_MISMATCH, in the detector's list and in the output, and the
\* false-positive rate of the output is between 0 and 100.
NoManifestNoManifestReasons ==
    manifestData = Null =>
        /\ \A j \in DOMAIN falsePositives :
              falsePositives[j].reason \notin {"DEV_ONLY", "VERSION_MISMATCH"}
        /\ pc = "done" =>
              /\ \A j \in DOMAIN jsonOutput.false_positives :
                    jsonOutput.false_positives[j].reason \notin {"DEV_ONLY", "VERSION_MISMATCH"}
              /\ DOMAIN jsonOutput.summary.false_positive_reasons
                    \cap {"DEV_ONLY", "VERSION_MISMATCH"} = {}
              /\ jsonOutput.summary.false_positive_rate \in 0..100

\* without a manifest, a finding of jest reported at another version than the
\* one in use is flagged, for another reason
NoManifestWitness ==
    /\ manifestData = Null
    /\ pc = "done"
    /\ \E k \in DOMAIN vulnerabilities :
          /\ vulnerabilities[k].dependency = jest
          /\ vulnerabilities[k].version = v1_0_0
          /\ Flagged(k)
    /\ jsonOutput.summary.false_positive_rate > 0

\* the checks in the order the claim gives them
ChainOrder == <<"VERSION_MISMATCH", "ENV_MISMATCH", "DEV_ONLY", "NON_REACHABLE", "UNUSED_TRANSITIVE">>

\* the result of the i-th check of ChainOrder for a finding
checkAt(i, vuln) ==
    CASE i = 1 -> checkVersionMismatch(vuln, manifestData)
      [] i = 2 -> checkEnvironmentMismatch(vuln, manifestData, runtimePlatform)
      [] i = 3 -> checkDevOnlyDependency(vuln, manifestData, reachabilityResults)
      [] i = 4 -> checkReachability(vuln, reachabilityResults)
      [] i = 5 -> checkUnusedTransitive(vuln, manifestData, reachabilityResults)

\* C9: the five checks count in the order version mismatch, environment
\* mismatch, development-only, non-reachable, unused transitive: the reason,
\* confidence and details of a flagged finding are those of the first check that
\* fires for it, and a finding is kept as a true vulnerability exactly when no
\* check fires.
FirstMatchWins ==
    \A k \in DOMAIN vulnerabilities :
        Detected(k) =>
            /\ \A e \in entriesOf(vulnerabilities[k]) :
                  \E i \in DOMAIN ChainOrder :
                      /\ e.reason = ChainOrder[i]
                      /\ checkAt(i, vulnerabilities[k]).isFalsePositive
                      /\ \A j \in 1..(i - 1) : ~checkAt(j, vulnerabilities[k]).isFalsePositive
                      /\ e.confidence = checkAt(i, vulnerabilities[k]).confidence
                      /\ e.details = checkAt(i, vulnerabilities[k]).details
            /\ ~Flagged(k) <=>
                  \A i \in DOMAIN ChainOrder : ~checkAt(i, vulnerabilities[k]).isFalsePositive
            /\ (pc \in {"generate", "done"} /\ ~Flagged(k)) =>
                  \E j \in DOMAIN trueVulnerabilities :
                      /\ trueVulnerabilities[j].cve_id = vulnerabilities[k].cveId
                      /\ trueVulnerabilities[j].severity = vulnerabilities[k].severity
                      /\ trueVulnerabilities[j].dependency =
                            formatDependency(vulnerabilities[k].dependency,
                                             vulnerabilities[k].version)

\* a finding for which the version, the environment and the development-only
\* check all fire, flagged as a version mismatch
FirstMatchWitness ==
    /\ pc = "done"
    /\ \E k \in DOMAIN vulnerabilities :
          /\ checkAt(1, vulnerabilities[k]).isFalsePositive
          /\ checkAt(2, vulnerabilities[k]).isFalsePositive
          /\ checkAt(3, vulnerabilities[k]).isFalsePositive
          /\ \E e \in entriesOf(vulnerabilities[k]) : e.reason = "VERSION_MISMATCH"

\* the result of analyzeVulnerability for a finding analysed as the only one
verdictAlone(vuln) ==
    analyzeVulnerability(vuln, manifestData,
                         analyzeOne(emptyResults, vuln, manifestData, callGraph),
                         runtimePlatform)

\* C10 as stated: two findings with the same cveId and different dependencies
\* each get their own reachability record and verdict, so each is classified as
\* it is when analysed alone: flagged or not, with the same reason and confidence.
PerFindingIndependence ==
    \A k, m \in DOMAIN vulnerabilities :
        ( /\ Detected(k) /\ Detected(m)
          /\ vulnerabilities[k].cveId = vulnerabilities[m].cveId
          /\ vulnerabilities[k].dependency # vulnerabilities[m].dependency ) =>
            /\ Flagged(k) <=> verdictAlone(vulnerabilities[k]).isFalsePositive
            /\ \A e \in entriesOf(vulnerabilities[k]) :
                  /\ e.reason = verdictAlone(vulnerabilities[k]).reason
                  /\ e.confidence = verdictAlone(vulnerabilities[k]).confidence

\* generateLLMReport has returned the fallback report
FallbackReturned == reportPc = "returned" /\ llmReport.model = "fallback"

\* C11 as stated: generateLLMReport never throws; whenever the service delivers
\* no report (every attempt throws or returns empty content, or the client cannot
\* be obtained) it returns the fallback report, with model 'fallback', tokens_used
\* 0 and the error message set.
ReportFailureNeverPropagates ==
    /\ reportPc # "threw"
    /\ (reportPc = "returned" /\ attempt > maxRetries) =>
          /\ llmReport.model = "fallback"
          /\ llmReport.tokens_used = 0
          /\ llmReport.error \in {EmptyResponse, ServiceError}

\* C12 as stated: a failed call is retried up to 3 times, after waits of 2s, 4s
\* and 8s; a success ends the loop with the waits made so far and no further
\* call; the fallback is returned only after the first call and 3 retries failed.
RetryProtocol ==
    /\ FallbackReturned =>
          /\ slept = <<2000, 4000, 8000>>
          /\ attempt - 1 = 1 + 3
    /\ (reportPc = "returned" /\ llmReport.model # "fallback") =>
          /\ attempt \in 1..(1 + 3)
          /\ slept = SubSeq(<<2000, 4000, 8000>>, 1, attempt - 1)

Confidences == {"HIGH", "MEDIUM", "LOW"}

\* something the pipeline reads is missing: the manifest, the call graph, a
\* finding's file path or a finding's severity (no finding carries a cvssScore:
\* the pipeline never reads one)
MissingInput ==
    \/ manifestData = Null
    \/ callGraph = Null
    \/ \E k \in DOMAIN vulnerabilities :
          vulnerabilities[k].filePath = << >> \/ vulnerabilities[k].severity = << >>

\* C13: with the manifest, the call graph, a file path or a severity missing,
\* the pipeline runs to its end: every step before the output can be taken, every
\* analysed finding has a reachability record with defined fields, every
\* detected finding a defined verdict, and the output its numbers.
PipelineDefinedOnMissingInput ==
    MissingInput =>
        /\ pc # "done" => ENABLED Next
        /\ Analysed =>
              /\ lastInfo # Null
              /\ lastInfo.isReachable \in BOOLEAN
              /\ lastInfo.confidence \in Confidences
              /\ lastInfo.pathClassification \in {"prod", "non_prod", "unknown"}
              /\ lastInfo.isDirect \in {"true", "false", "null"}
              /\ lastInfo.isDevDependency \in {"true", "false", "null"}
        /\ \A j \in DOMAIN falsePositives :
              /\ falsePositives[j].reason \in ReasonCodes
              /\ falsePositives[j].confidence \in Confidences
        /\ pc \in {"generate", "done"} =>
              Len(falsePositives) + Len(trueVulnerabilities) = Len(vulnerabilities)
        /\ pc = "done" =>
              /\ jsonOutput # Null
              /\ jsonOutput.summary.risk_score \in 0..100
              /\ jsonOutput.summary.false_positive_rate \in 0..100
              /\ jsonOutput.summary.severity_breakdown.critical \in Nat
              /\ jsonOutput.summary.severity_breakdown.low \in Nat
              /\ jsonOutput.summary.requires_immediate_action \in BOOLEAN

\* one finding without file path, severity and version, analysed without manifest
\* and call graph, through to the output
MissingInputWitness ==
    /\ pc = "done"
    /\ manifestData = Null
    /\ callGraph = Null
    /\ Len(vulnerabilities) = 1
    /\ vulnerabilities[1].filePath = << >>
    /\ vulnerabilities[1].severity = << >>
    /\ vulnerabilities[1].version = << >>
    /\ jsonOutput.metadata.true_vulnerabilities_found = 1
    /\ jsonOutput.summary.severity_breakdown.low = 1

-----------------------------------------------------------------------------
(* One finding against manifests whose keys contain one another, in every  *)
(* key order                                                               *)

lodashMerge == <<"l","o","d","a","s","h",".","m","e","r","g","e">>
merge == <<"m","e","r","g","e">>

MatchNames == {lodash, lodashMerge, merge, jest}

MaxManifestEntries == 3

\* the key sequences of a package.json's dependencies: no key twice
KeyOrders ==
    {keys \in SeqsUpTo(MatchNames, MaxManifestEntries) :
        \A i, j \in DOMAIN keys : i # j => keys[i] # keys[j]}

\* a package.json whose dependencies are the given keys, in that order
manifestOf(keys) ==
    [type |-> "npm",
     dependencies |-> [k \in DOMAIN keys |->
        [name |-> keys[k], version |-> v1_0_0, isDev |-> FALSE, isOptional |-> FALSE]],
     productionDependencies |-> [k \in DOMAIN keys |->
        [name |-> keys[k], version |-> v1_0_0, isDev |-> FALSE, isOptional |-> FALSE]],
     devDependencies |-> << >>]

InitMatch ==
    \E keys \in KeyOrders, dep \in MatchNames, cg \in {Null, cgNone} :
        Start(<<Finding("CVE-1", dep, v1_0_0, HIGH, << >>, pathProd)>>,
              manifestOf(keys), cg, "linux")

SpecMatch == InitMatch /\ [][Next]_vars

\* some key of the map normalizes to the normalized name
ExactKey(depName, manifestDeps) ==
    \E k \in DOMAIN manifestDeps :
        normalizePackageName(manifestDeps[k].name) = normalizePackageName(depName)

\* some key of the map contains the normalized name, or is contained in it
ContainmentKey(depName, manifestDeps) ==
    \E k \in DOMAIN manifestDeps :
        \/ includes(normalizePackageName(manifestDeps[k].name), normalizePackageName(depName))
        \/ includes(normalizePackageName(depName), normalizePackageName(manifestDeps[k].name))

\* the name analyzeReachability looks up for the analysed finding
lastDepName == extractPackageName_ra(lastVuln.dependency)

\* C14 as stated: when some key of the manifest normalizes to the dependency's
\* normalized name, the matcher returns that entry, without partialMatch, even
\* when a key that matches only by containment stands earlier in the map; it
\* returns a partial match only when no key matches exactly, and null only when
\* no key matches either way.  Read off the record of the analysed finding and
\* off findDependencyMatch on the same inputs.
ExactMatchWins ==
    (Analysed /\ manifestData # Null) =>
        /\ ExactKey(lastDepName, manifestData.dependencies) =>
              /\ lastInfo.isDirect = "true"
              /\ normalizePackageName(lastInfo.matchedDependency)
                    = normalizePackageName(lastDepName)
              /\ ~findDependencyMatch(lastDepName,
                                      manifestData.dependencies).partialMatch
        /\ ( /\ ~ExactKey(lastDepName, manifestData.dependencies)
             /\ ContainmentKey(lastDepName, manifestData.dependencies) ) =>
              /\ lastInfo.isDirect = "true"
              /\ findDependencyMatch(lastDepName,
                                     manifestData.dependencies).partialMatch
        /\ ~ContainmentKey(lastDepName, manifestData.dependencies) =>
              lastInfo.isDirect = "false"

-----------------------------------------------------------------------------
(* One finding over file paths with a marker as a segment, first, inner or *)
(* last, under either delimiter, and with a marker inside a longer segment *)

pathFirstSegment == <<"t","e","s","t","/","f","o","o",".","j","s">>
pathLatest == <<"s","r","c","/","l","a","t","e","s","t","/","i","n","d","e","x",".","j","s">>
pathContest == <<"c","o","n","t","e","s","t","/","a","p","p",".","j","s">>
pathBackslash == <<"s","r","c","\\","_","_","t","e","s","t","s","_","_","\\","a",".","j","s">>
pathMixed == <<"s","r","c","/","s","p","e","c","\\","a",".","j","s">>
pathEndsWithMarker == <<"p","k","g","/","d","e","m","o">>
pathUpper == <<"S","R","C","/","E","x","a","m","p","l","e","s","/","M","a","i","n",".","j","s">>
pathFixtures == <<"l","i","b","/","f","i","x","t","u","r","e","s","/","d","a","t","a",".","j","s">>
pathFirstBackslash == <<"s","a","m","p","l","e","\\","r","u","n",".","j","s">>
pathMarkerAlone == <<"f","i","x","t","u","r","e">>

MarkerPaths ==
    {<< >>, pathProd, pathTest, pathFirstSegment, pathLatest, pathContest, pathBackslash, pathMixed, pathEndsWithMarker, pathUpper, pathFixtures, pathFirstBackslash, pathMarkerAlone}

InitPath ==
    \E path \in MarkerPaths, dep \in {lodash, jest}, manifest \in Manifests,
       cg \in {Null, cgEdges} :
        Start(<<Finding("CVE-1", dep, << >>, HIGH, << >>, path)>>, manifest, cg, "linux")

SpecPath == InitPath /\ [][Next]_vars

\* the segments of a path, lower-cased, under both delimiters
pathSegments(path) ==
    split([i \in DOMAIN path |-> IF path[i] = "\\" THEN "/" ELSE LowerOf(path[i])], "/")

\* some whole segment of the path is a marker
HasMarkerSegment(path) ==
    \E i \in DOMAIN pathSegments(path), k \in DOMAIN nonProdMarkers :
        pathSegments(path)[i] = nonProdMarkers[k]

\* C15 as stated: the classification stored for a finding is 'unknown' for an
\* empty path, 'non_prod' exactly when some whole segment of the path, under
\* either delimiter, in any letter case and at any position including the
\* first, is one of the markers, and 'prod' otherwise; a marker inside a longer
\* segment does not count.
WholeSegmentClassification ==
    Analysed =>
        lastInfo.pathClassification =
            IF lastVuln.filePath = << >> THEN "unknown"
            ELSE IF HasMarkerSegment(lastVuln.filePath) THEN "non_prod"
            ELSE "prod"

-----------------------------------------------------------------------------
(* One finding against call graphs that name its dependency exactly, or    *)
(* only inside a longer name, on a node or on an edge                      *)

\* lodash.merge is a node, nothing calls it
cgMergeNode == [nodes |-> <<main, lodashMerge>>, edges |-> << [from |-> main, to |-> util] >>]
\* an edge calls into lodash.merge
cgMergeEdge == [nodes |-> <<main>>, edges |-> << [from |-> main, to |-> lodashMerge] >>]

AssessedCallGraphs == {Null, cgNone, cgEdges, cgNodes, cgMergeNode, cgMergeEdge}

InitCallGraph ==
    \E dep \in MatchNames, cg \in AssessedCallGraphs, manifest \in Manifests,
       path \in {pathProd, pathTest} :
        Start(<<Finding("CVE-1", dep, << >>, HIGH, << >>, path)>>, manifest, cg, "linux")

SpecCallGraph == InitCallGraph /\ [][Next]_vars

\* the analysed finding's dependency name, normalized
lastNormalized == normalizePackageName(lastDepName)

\* some node of the call graph normalizes to the dependency's normalized name
NodeNamesIt ==
    \E i \in DOMAIN callGraph.nodes : normalizePackageName(callGraph.nodes[i]) = lastNormalized

\* some edge endpoint of the call graph contains the dependency's normalized name
EdgeContainsIt ==
    \E i \in DOMAIN callGraph.edges :
        \/ includes(normalizePackageName(callGraph.edges[i].from), lastNormalized)
        \/ includes(normalizePackageName(callGraph.edges[i].to), lastNormalized)

\* C16: without a call graph the assessor gives no evidence; with one it gives
\* isReachable = FALSE with confidence HIGH exactly when no node normalizes to the
\* dependency's normalized name and no edge endpoint contains it, and otherwise
\* isReachable = TRUE, with HIGH when an edge references it and MEDIUM when only a
\* node does.  Read off the record stored without a manifest, which takes the
\* assessor's verdict as it is, and off the evidence field stored with one.
CallGraphAssessment ==
    Analysed =>
        /\ callGraph = Null =>
              /\ lastInfo.callGraphEvidence = "null"
              /\ assessCallGraphReachability(lastVuln, callGraph) = Null
        /\ callGraph # Null =>
              /\ lastInfo.callGraphEvidence =
                    IF ~NodeNamesIt /\ ~EdgeContainsIt
                    THEN "No call graph nodes or edges reference this dependency"
                    ELSE "Call graph contains references to the vulnerable component"
              /\ manifestData = Null =>
                    /\ lastInfo.isReachable = (NodeNamesIt \/ EdgeContainsIt)
                    /\ lastInfo.confidence =
                          IF ~NodeNamesIt /\ ~EdgeContainsIt THEN "HIGH"
                          ELSE IF EdgeContainsIt THEN "HIGH" ELSE "MEDIUM"

\* 'merge' assessed against a call graph whose only reference is an edge into
\* lodash.merge: reachable, with confidence HIGH
CallGraphWitness ==
    /\ Analysed
    /\ manifestData = Null
    /\ callGraph = cgMergeEdge
    /\ lastVuln.dependency = merge
    /\ lastInfo.isReachable = TRUE
    /\ lastInfo.confidence = "HIGH"

-----------------------------------------------------------------------------
(* One finding against manifests whose entries are production, development *)
(* or optional, or several of these at once, over the call graphs and paths *)

\* package.json listing lodash under dependencies and optionalDependencies, jest
\* under devDependencies and optionalDependencies, fsevents under
\* optionalDependencies only
manifestOptionalAll ==
    [type |-> "npm",
     dependencies |-> << [name |-> lodash, version |-> v4_17_21, isDev |-> FALSE, isOptional |-> TRUE],
                         [name |-> jest, version |-> v29_0_0, isDev |-> TRUE, isOptional |-> TRUE],
                         [name |-> fsevents, version |-> v1_0_0, isDev |-> FALSE, isOptional |-> TRUE] >>,
     productionDependencies |-> << [name |-> lodash, version |-> v4_17_21, isDev |-> FALSE, isOptional |-> FALSE] >>,
     devDependencies |-> << [name |-> jest, version |-> v29_0_0, isDev |-> FALSE, isOptional |-> FALSE] >>]

RuleManifests == {manifestNpm, manifestOptionalAll}

InitRules ==
    \E dep \in Dependencies, manifest \in RuleManifests, cg \in CallGraphs, path \in FilePaths :
        Start(<<Finding("CVE-1", dep, v1_0_0, HIGH, << >>, path)>>, manifest, cg, "linux")

SpecRules == InitRules /\ [][Next]_vars

\* the analysed finding's match in the whole manifest, in productionDependencies
\* and in devDependencies
lastDirectMatch == findDependencyMatch(lastDepName, manifestData.dependencies)
lastProdMatch == findDependencyMatch(lastDepName, manifestData.productionDependencies)
lastDevMatch == findDependencyMatch(lastDepName, manifestData.devDependencies)

\* the matched manifest entry is optional
lastIsOptional == lastDirectMatch # Null /\ lastDirectMatch.info.isOptional

\* C17: with a manifest, a dependency that matches devDependencies and not
\* productionDependencies ends with isDevDependency = true and isReachable = false
\* whatever the call graph and the path are, with confidence HIGH, or MEDIUM when
\* the matched entry is optional.
DevOnlyOverridesCallGraph ==
    (Analysed /\ manifestData # Null /\ lastDevMatch # Null /\ lastProdMatch = Null) =>
        /\ lastInfo.isDevDependency = "true"
        /\ lastInfo.isReachable = FALSE
        /\ lastInfo.confidence = IF lastIsOptional THEN "MEDIUM" ELSE "HIGH"

\* jest, listed under devDependencies only, with call-graph edges into it and a
\* production path: dev dependency, unreachable, HIGH
DevOnlyOverridesWitness ==
    /\ Analysed
    /\ manifestData = manifestNpm
    /\ callGraph = cgEdges
    /\ lastVuln.dependency = jest
    /\ lastVuln.filePath = pathProd
    /\ lastInfo.callGraphEvidence = "Call graph contains references to the vulnerable component"
    /\ lastInfo.isDevDependency = "true"
    /\ lastInfo.isReachable = FALSE
    /\ lastInfo.confidence = "HIGH"

\* C18: with a manifest, a dependency that matches productionDependencies and not
\* devDependencies, on a path that is not classified non_prod, ends with
\* isReachable = true and confidence HIGH, also when the call graph has no
\* invocation path to it.
ProductionOverridesCallGraph ==
    (/\ Analysed /\ manifestData # Null
     /\ lastProdMatch # Null /\ lastDevMatch = Null
     /\ classifyPath(lastVuln.filePath) # "non_prod") =>
        /\ lastInfo.isReachable = TRUE
        /\ lastInfo.confidence = "HIGH"

\* lodash, a production dependency that is also listed as optional, with a call
\* graph that never mentions it: reachable, HIGH
ProductionOverridesWitness ==
    /\ Analysed
    /\ manifestData = manifestOptionalAll
    /\ callGraph = cgNone
    /\ lastVuln.dependency = lodash
    /\ lastVuln.filePath = pathProd
    /\ lastInfo.callGraphEvidence = "No call graph nodes or edges reference this dependency"
    /\ lastInfo.isReachable = TRUE
    /\ lastInfo.confidence = "HIGH"

\* C19: with a manifest, a dependency whose matched entry is optional and that does
\* not match productionDependencies ends with isReachable = false and confidence
\* MEDIUM, whatever the call graph, the dev-only rule and the path rule had set.
OptionalRuleLast ==
    (Analysed /\ manifestData # Null /\ lastIsOptional /\ lastProdMatch = Null) =>
        /\ lastInfo.isReachable = FALSE
        /\ lastInfo.confidence = "MEDIUM"

\* jest listed as both a dev and an optional dependency, with call-graph edges into
\* it, on a test path: every earlier rule has set HIGH, the record says MEDIUM
OptionalRuleWitness ==
    /\ Analysed
    /\ manifestData = manifestOptionalAll
    /\ callGraph = cgEdges
    /\ lastVuln.dependency = jest
    /\ lastVuln.filePath = pathTest
    /\ lastInfo.pathClassification = "non_prod"
    /\ lastInfo.isDevDependency = "true"
    /\ lastInfo.isReachable = FALSE
    /\ lastInfo.confidence = "MEDIUM"

-----------------------------------------------------------------------------
(* The version-mismatch check over SpecVersion: when it fires                *)

\* the declared and the reported version of finding k are both present and differ
\* once their leading range operators are stripped
DistinctVersions(k) ==
    /\ declaredVersion # << >>
    /\ vulnerabilities[k].version # << >>
    /\ cleanVersionString(declaredVersion) # cleanVersionString(vulnerabilities[k].version)

\* C20: with a manifest, the version-mismatch check fires for a finding exactly when
\* the matching entry declares a version, the finding reports one, and the two
\* differ after their leading range operators are stripped; 4.17.2 against 4.17.21
\* and 1 against 1.5.0 differ, so the check fires on them.
VersionMismatchFiring ==
    pc = "done" =>
        \A k \in DOMAIN vulnerabilities :
            checkVersionMismatch(vulnerabilities[k], manifestData).isFalsePositive
                <=> DistinctVersions(k)

-----------------------------------------------------------------------------
(* One finding whose version agrees with the manifest, over descriptions,   *)
(* runtime platforms and manifest types                                     *)

descWindowsLinux == <<"w","i","n","d","o","w","s"," ","o","r"," ","l","i","n","u","x">>
descMacUpper == <<"A","f","f","e","c","t","s"," ","M","a","c","O","S">>
descScenarios == <<"s","c","e","n","a","r","i","o","s">>
descPython == <<"p","y","t","h","o","n">>
descNode == <<"n","o","d","e">>
descPlain == <<"o","v","e","r","f","l","o","w">>

EnvDescriptions ==
    {<< >>, descLinux, descWindowsLinux, descMacUpper, descScenarios, descPython, descNode,
     descPlain}

EnvPlatforms == {"linux", "win32", "darwin"}

\* a manifest of the given ecosystem that declares lodash 4.17.21
manifestTyped(type) == [manifestDeclaring(v4_17_21) EXCEPT !.type = type]

EnvManifests == {Null, manifestTyped("npm"), manifestTyped("pip"), manifestTyped("maven")}

InitEnv ==
    \E desc \in EnvDescriptions, platform \in EnvPlatforms, manifest \in EnvManifests,
       path \in {pathProd, pathTest} :
        Start(<<Finding("CVE-1", lodash, v4_17_21, HIGH, desc, path)>>, manifest, Null, platform)

SpecEnv == InitEnv /\ [][Next]_vars

\* the description of finding k, lower-cased
descriptionOf(k) == toLowerCase(vulnerabilities[k].description)

\* the keywords, by position in the list windows, macos, os x, linux, android, ios,
\* that the description of finding k contains and whose platform is not the
\* current one
ForeignKeywords(k) ==
    {i \in DOMAIN envSignals : /\ includes(descriptionOf(k), envSignals[i].keyword)
                               /\ runtimePlatform \notin envSignals[i].platforms}

\* the manifest's ecosystem contradicts a runtime the description of finding k mentions
RuntimeContradiction(k) ==
    /\ manifestData # Null
    /\ \/ manifestData.type = "npm" /\ includes(descriptionOf(k), <<"p","y","t","h","o","n">>)
       \/ manifestData.type \in {"pip", "maven"} /\ includes(descriptionOf(k), <<"n","o","d","e">>)

\* the ENV_MISMATCH entries emitted for finding k
envEntries(k) == {e \in entriesOf(vulnerabilities[k]) : e.reason = "ENV_MISMATCH"}

\* C21: for a finding the version check passes, the environment check fires exactly
\* when the description contains a keyword of the list whose platform is not the
\* current one, or the manifest's ecosystem contradicts a runtime the description
\* mentions; it fires with confidence MEDIUM, names the first such keyword of the
\* list even when a keyword of the current platform is present too, and its
\* keyword part needs no manifest.
EnvironmentMismatchFiring ==
    \A k \in DOMAIN vulnerabilities :
        Detected(k) =>
            /\ envEntries(k) # {} <=> (ForeignKeywords(k) # {} \/ RuntimeContradiction(k))
            /\ \A e \in envEntries(k) :
                  /\ e.confidence = "MEDIUM"
                  /\ ForeignKeywords(k) # {} =>
                        e.details = <<"platform",
                                      envSignals[CHOOSE i \in ForeignKeywords(k) :
                                          \A j \in ForeignKeywords(k) : i <= j].keyword,
                                      runtimePlatform>>

\* 'windows or linux' on win32, without a manifest: flagged for linux, the first
\* keyword of another platform, although windows is the current one
EnvironmentMismatchWitness ==
    /\ pc = "done"
    /\ manifestData = Null
    /\ runtimePlatform = "win32"
    /\ vulnerabilities[1].description = descWindowsLinux
    /\ \E e \in envEntries(1) :
          e.confidence = "MEDIUM" /\ e.details = <<"platform", <<"l","i","n","u","x">>, "win32">>

-----------------------------------------------------------------------------
(* The unused-transitive check over SpecFinding: when it fires              *)

\* the reachability record the detector reads for finding k
recordOf(k) == reachabilityResults.reachabilityMap[vulnerabilities[k].cveId]

\* some key of the manifest's full dependency map normalizes to the normalized
\* package name of finding k
InManifest(k) ==
    \E i \in DOMAIN manifestData.dependencies :
        normalizePackageName(manifestData.dependencies[i].name)
            = normalizePackageName(extractPackageName_fp(vulnerabilities[k].dependency))

\* the condition the claim gives for the unused-transitive check
TransitiveCondition(k) ==
    /\ manifestData # Null
    /\ recordOf(k) # Null
    /\ recordOf(k).isDirect = "false"
    /\ recordOf(k).confidence # "HIGH"
    /\ ~InManifest(k)

\* C22: the unused-transitive check fires, with confidence MEDIUM, exactly when a
\* manifest is supplied, the finding's reachability record has isDirect false and a
\* confidence other than HIGH, and no key of the manifest's dependency map
\* normalizes to the finding's package name; every UNUSED_TRANSITIVE entry emitted
\* comes from such a finding, and such a finding is flagged.
UnusedTransitiveFiring ==
    \A k \in DOMAIN vulnerabilities :
        Detected(k) =>
            /\ checkUnusedTransitive(vulnerabilities[k], manifestData,
                                     reachabilityResults).isFalsePositive
                  <=> TransitiveCondition(k)
            /\ TransitiveCondition(k) =>
                  /\ checkUnusedTransitive(vulnerabilities[k], manifestData,
                                           reachabilityResults).confidence = "MEDIUM"
                  /\ Flagged(k)
            /\ \A e \in entriesOf(vulnerabilities[k]) :
                  e.reason = "UNUSED_TRANSITIVE" =>
                      TransitiveCondition(k) /\ e.confidence = "MEDIUM"

\* left-pad, which the manifest does not list, on a production path with call-graph
\* nodes only: its record is not direct with confidence MEDIUM, and it is flagged
\* UNUSED_TRANSITIVE
UnusedTransitiveWitness ==
    /\ pc = "done"
    /\ manifestData = manifestNpm
    /\ callGraph = cgNodes
    /\ vulnerabilities[1].dependency = leftpad
    /\ vulnerabilities[1].filePath = pathProd
    /\ recordOf(1).isDirect = "false"
    /\ recordOf(1).confidence = "MEDIUM"
    /\ \E e \in entriesOf(vulnerabilities[1]) :
          e.reason = "UNUSED_TRANSITIVE" /\ e.confidence = "MEDIUM"

-----------------------------------------------------------------------------
(* Lists of flagged and kept findings, over their two counts               *)

MaxFlagged == 23
MaxKept == 17

\* flagged findings first, each described as affecting linux while the runtime is
\* win32, then findings nothing speaks against
InitRate ==
    \E fp \in 0..MaxFlagged, tv \in 0..MaxKept :
        Start([k \in 1..fp |-> Finding("CVE-1", lodash, v4_17_21, HIGH, descLinux, pathProd)]
                \o [k \in 1..tv |-> Finding("CVE-2", lodash, v4_17_21, LOW, << >>, pathProd)],
              Null, Null, "win32")

SpecRate == InitRate /\ [][Next]_vars

\* the nearest integer to 100 * fp / (fp + tv), halves up; 0 when there is nothing
NearestPercent(fp, tv) ==
    IF fp + tv = 0 THEN 0 ELSE (200 * fp + (fp + tv)) \div (2 * (fp + tv))

\* C23 as stated: the false-positive rate of the output is 0 when nothing was
\* scanned and otherwise the integer nearest to 100 * fp / (fp + tv), halves
\* rounded up; it lies in 0..100, it is 100 when every finding is a false positive,
\* and total_scanned is fp + tv.
FalsePositiveRateNearest ==
    pc = "done" =>
        /\ jsonOutput.summary.false_positive_rate
              = NearestPercent(Len(falsePositives), Len(trueVulnerabilities))
        /\ jsonOutput.summary.false_positive_rate \in 0..100
        /\ (Len(trueVulnerabilities) = 0 /\ Len(falsePositives) > 0) =>
              jsonOutput.summary.false_positive_rate = 100
        /\ jsonOutput.summary.total_scanned = Len(falsePositives) + Len(trueVulnerabilities)

-----------------------------------------------------------------------------
(* Findings that are all true vulnerabilities, over severities in any      *)
(* letter case, unrecognized or missing                                     *)

SummarySeverities == {CRITICAL, HIGH, MEDIUM, LOW, UNKNOWN, << >>, <<"H","i","g","h">>, <<"c","r","i","t","i","c","a","l">>}

MaxSeverities == 3

InitSeverity ==
    \E sevs \in SeqsUpTo(SummarySeverities, MaxSeverities) :
        Start([k \in DOMAIN sevs |-> Finding("CVE-1", lodash, v4_17_21, sevs[k], << >>, pathProd)],
              Null, Null, "linux")

SpecSeverity == InitSeverity /\ [][Next]_vars

\* the number of true vulnerabilities whose severity is the given level in any
\* letter case
numberNamed(level) ==
    Cardinality({k \in DOMAIN trueVulnerabilities :
                    toUpperCase(trueVulnerabilities[k].severity) = level})

\* the number of true vulnerabilities without a severity
numberAbsent ==
    Cardinality({k \in DOMAIN trueVulnerabilities : trueVulnerabilities[k].severity = << >>})

\* the sum of the four buckets of the output
bucketSum ==
    jsonOutput.summary.severity_breakdown.critical + jsonOutput.summary.severity_breakdown.high
        + jsonOutput.summary.severity_breakdown.medium + jsonOutput.summary.severity_breakdown.low

\* requires_immediate_action is true exactly when critical > 0 or high > 0
ImmediateActionRule ==
    jsonOutput.summary.requires_immediate_action
        <=> (\/ jsonOutput.summary.severity_breakdown.critical > 0
             \/ jsonOutput.summary.severity_breakdown.high > 0)

\* C24 as stated: each true vulnerability with severity CRITICAL, HIGH, MEDIUM or
\* LOW in any letter case is counted in its bucket, and one whose severity is
\* unrecognized or absent is in no bucket, so the four buckets sum to the number of
\* true vulnerabilities with a recognized severity; requires_immediate_action is
\* true exactly when critical > 0 or high > 0.
SeverityHistogramDropsAbsent ==
    pc = "done" =>
        /\ jsonOutput.summary.severity_breakdown.critical = numberNamed(CRITICAL)
        /\ jsonOutput.summary.severity_breakdown.high = numberNamed(HIGH)
        /\ jsonOutput.summary.severity_breakdown.medium = numberNamed(MEDIUM)
        /\ jsonOutput.summary.severity_breakdown.low = numberNamed(LOW)
        /\ bucketSum = numberNamed(CRITICAL) + numberNamed(HIGH) + numberNamed(MEDIUM)
                            + numberNamed(LOW)
        /\ ImmediateActionRule

\* C24, amended: a true vulnerability without a severity is counted in the low
\* bucket; only a severity that is present and unrecognized is in no bucket, so the
\* four buckets sum to the number of true vulnerabilities whose severity is
\* recognized or absent.
SeverityHistogram ==
    pc = "done" =>
        /\ jsonOutput.summary.severity_breakdown.critical = numberNamed(CRITICAL)
        /\ jsonOutput.summary.severity_breakdown.high = numberNamed(HIGH)
        /\ jsonOutput.summary.severity_breakdown.medium = numberNamed(MEDIUM)
        /\ jsonOutput.summary.severity_breakdown.low = numberNamed(LOW) + numberAbsent
        /\ bucketSum = numberNamed(CRITICAL) + numberNamed(HIGH) + numberNamed(MEDIUM)
                            + numberNamed(LOW) + numberAbsent
        /\ ImmediateActionRule

\* 'High', a missing severity and UNKNOWN: one in high, one in low, one dropped
SeverityHistogramWitness ==
    /\ pc = "done"
    /\ Len(trueVulnerabilities) = 3
    /\ trueVulnerabilities[1].severity = <<"H","i","g","h">>
    /\ trueVulnerabilities[2].severity = << >>
    /\ trueVulnerabilities[3].severity = UNKNOWN
    /\ jsonOutput.summary.severity_breakdown
          = [critical |-> 0, high |-> 1, medium |-> 0, low |-> 1]
    /\ jsonOutput.summary.requires_immediate_action

-----------------------------------------------------------------------------
(* The handlers and validateJsonOutput                                      *)

\* C25: every analysis result the handlers return has been checked by
\* validateJsonOutput before it is returned: the step that sends the response is
\* taken from a step that validated the output, and the output sent is one whose
\* list of violations was looked at.
OutputValidatedBeforeReturn ==
    [][(pc # "done" /\ pc' = "done") => pc = "validate"]_vars

-----------------------------------------------------------------------------
(* What the detector and the output generator leave alone                  *)

\* C26: a step of detectFalsePositives leaves the findings, the manifest and every
\* reachability record as they were and only appends to the false positives it has
\* emitted; the step of generateJsonOutput leaves the false-positive list and the
\* true-vulnerability list as they were.
ForwardOnlyDataFlow ==
    [][/\ pc = "detect" =>
            /\ UNCHANGED <<vulnerabilities, manifestData, reachabilityResults>>
            /\ Len(falsePositives') >= Len(falsePositives)
            /\ SubSeq(falsePositives', 1, Len(falsePositives)) = falsePositives
       /\ pc = "generate" => UNCHANGED <<falsePositives, trueVulnerabilities>>]_vars

\* a finding described as 'Affects MacOS' has been flagged and written to the
\* output, and is still the finding the report gave, in its own letter case
ForwardOnlyWitness ==
    /\ pc = "done"
    /\ vulnerabilities[1].description = descMacUpper
    /\ Len(falsePositives) = 1
    /\ falsePositives[1].reason = "ENV_MISMATCH"
    /\ falsePositives[1].originalVuln = vulnerabilities[1]
    /\ jsonOutput.false_positives[1].reason = "ENV_MISMATCH"

-----------------------------------------------------------------------------
(* A call graph without references against no call graph, over SpecCallGraph *)

\* no node and no edge of the call graph references the dependency of finding k
Unreferenced(k) ==
    /\ ~referencedByNode(callGraph,
                         normalizePackageName(extractPackageName_ra(vulnerabilities[k].dependency)))
    /\ ~referencedByEdge(callGraph,
                         normalizePackageName(extractPackageName_ra(vulnerabilities[k].dependency)))

\* the reachability results of the same request sent without a call graph
resultsWithoutCallGraph(k) ==
    [reachabilityResults EXCEPT
        !.reachabilityMap[vulnerabilities[k].cveId] =
            reachabilityInfo(vulnerabilities[k], manifestData, Null)]

\* finding k is a false positive when the request carries no call graph
FlaggedWithoutCallGraph(k) ==
    analyzeVulnerability(vulnerabilities[k], manifestData, resultsWithoutCallGraph(k),
                         runtimePlatform).isFalsePositive

\* C27: with a manifest, a finding whose dependency matches no manifest entry, on a
\* path that is not non_prod, and that is a false positive without a call graph, is
\* still a false positive with a call graph in which no node and no edge
\* references the dependency.
NegativeEvidenceNeverRescues ==
    \A k \in DOMAIN vulnerabilities :
        (/\ Detected(k)
         /\ manifestData # Null
         /\ callGraph # Null
         /\ Unreferenced(k)
         /\ findDependencyMatch(extractPackageName_ra(vulnerabilities[k].dependency),
                                manifestData.dependencies) = Null
         /\ classifyPath(vulnerabilities[k].filePath) # "non_prod"
         /\ FlaggedWithoutCallGraph(k))
            => Flagged(k)

-----------------------------------------------------------------------------
(* The placeholder version 'Unknown' over SpecVersion                       *)

\* C28: a finding whose reported version is the placeholder 'Unknown' is never
\* classified VERSION_MISMATCH, whatever version the manifest declares.
UnknownVersionNeverMismatch ==
    \A j \in DOMAIN falsePositives :
        falsePositives[j].originalVuln.version = Unknown =>
            falsePositives[j].reason # "VERSION_MISMATCH"

-----------------------------------------------------------------------------
(* The reason and the confidence of every emitted false-positive entry.     *)

EntryConfidences == {"MEDIUM", "HIGH"}

\* the reachability record of the finding a false-positive entry was emitted for
recordOfEntry(entry) == reachabilityResults.reachabilityMap[entry.originalVuln.cveId]

\* C29: every false-positive entry that analyzeReachability followed by
\* detectFalsePositives emits has one of the five reason codes and a confidence
\* of MEDIUM or HIGH (never LOW, never a null reason), and a NON_REACHABLE entry
\* carries exactly the confidence of its finding's reachability record.
FalsePositiveEntryShape ==
    \A j \in DOMAIN falsePositives :
        /\ falsePositives[j].reason \in ReasonCodes
        /\ falsePositives[j].confidence \in EntryConfidences
        /\ falsePositives[j].reason = "NON_REACHABLE"
               => falsePositives[j].confidence = recordOfEntry(falsePositives[j]).confidence

\* a NON_REACHABLE entry has been emitted for a finding whose record has
\* confidence HIGH, and an entry with another reason next to it
FalsePositiveEntryWitness ==
    /\ \E j \in DOMAIN falsePositives :
           /\ falsePositives[j].reason = "NON_REACHABLE"
           /\ recordOfEntry(falsePositives[j]).confidence = "HIGH"
    /\ \E j \in DOMAIN falsePositives : falsePositives[j].reason # "NON_REACHABLE"

-----------------------------------------------------------------------------
(* client/src/App.jsx: the App component.  Its handlers run to their first  *)
(* await in one step; what follows the await runs when the fetch settles,   *)
(* on whatever state the component has by then.                             *)

serverVars == <<vulnerabilities, manifestData, callGraph, runtimePlatform, pc, idx,
                reachabilityResults, falsePositives, trueVulnerabilities, jsonOutput,
                reportPc, attempt, lastError, slept, llmReport>>

FileSlots == {"owaspReport", "dependencyManifest"}

\* what FileUpload passes to onFileChange: a dropped or selected file, or null
\* when the user removes the file
SelectableFiles ==
    {[name |-> "dependency-check-report.json"], [name |-> "package.json"], Null}

\* what POST /api/analyze can answer: the analysis, or an error
AnalyzeOutcomes ==
    {[ok |-> TRUE, analysis |-> [summary |-> [total_scanned |-> n]]] : n \in 1..2}
        \cup {[ok |-> FALSE, error |-> "Analysis failed"]}

\* what POST /api/generate-report can answer for the analysis it was sent
reportOutcomes(analysis) ==
    {[ok |-> TRUE, report |-> [generatedFor |-> analysis]],
     [ok |-> FALSE, error |-> "Report generation failed"]}

handleFileChange(state, type, file) ==
    [state EXCEPT !.files[type] = file, !.error = "null"]

handleReset(state) ==
    [state EXCEPT !.files = [owaspReport |-> Null, dependencyManifest |-> Null],
                  !.analysisResult = Null,
                  !.llmReport = Null,
                  !.error = "null",
                  !.activeTab = "upload"]

\* FileUpload, rendered on the upload tab, reports a picked or removed file
HandleFileChange ==
    /\ app.activeTab = "upload"
    /\ \E type \in FileSlots, file \in SelectableFiles :
           app' = handleFileChange(app, type, file)
    /\ UNCHANGED requests
    /\ UNCHANGED serverVars

\* handleAnalyze up to `await fetch('/api/analyze', ...)`; its button is rendered
\* on the upload tab and is disabled without a report or while isAnalyzing
HandleAnalyze ==
    /\ app.activeTab = "upload"
    /\ app.files.owaspReport # Null
    /\ ~app.isAnalyzing
    /\ app' = [app EXCEPT !.isAnalyzing = TRUE, !.error = "null"]
    /\ requests' = requests \cup {[url |-> "/api/analyze", body |-> app.files]}
    /\ UNCHANGED serverVars

\* handleAnalyze after the await: the try block's end, its catch, its finally
AnalyzeSettled ==
    /\ \E request \in requests, response \in AnalyzeOutcomes :
           /\ request.url = "/api/analyze"
           /\ app' = IF response.ok
                     THEN [app EXCEPT !.analysisResult = response.analysis,
                                      !.activeTab = "analysis",
                                      !.isAnalyzing = FALSE]
                     ELSE [app EXCEPT !.error = response.error,
                                      !.isAnalyzing = FALSE]
           /\ requests' = requests \ {request}
    /\ UNCHANGED serverVars

\* handleGenerateReport up to `await fetch('/api/generate-report', ...)`; its
\* button is rendered on the analysis tab while there is an analysisResult and
\* is disabled while isGeneratingReport
HandleGenerateReport ==
    /\ app.activeTab = "analysis"
    /\ app.analysisResult # Null
    /\ ~app.isGeneratingReport
    /\ app' = [app EXCEPT !.isGeneratingReport = TRUE, !.error = "null"]
    /\ requests' = requests \cup
           {[url |-> "/api/generate-report", body |-> app.analysisResult]}
    /\ UNCHANGED serverVars

\* handleGenerateReport after the await
ReportSettled ==
    /\ \E request \in requests :
           /\ request.url = "/api/generate-report"
           /\ \E response \in reportOutcomes(request.body) :
                  app' = IF response.ok
                         THEN [app EXCEPT !.llmReport = response.report,
                                          !.activeTab = "report",
                                          !.isGeneratingReport = FALSE]
                         ELSE [app EXCEPT !.error = response.error,
                                          !.isGeneratingReport = FALSE]
           /\ requests' = requests \ {request}
    /\ UNCHANGED serverVars

\* the "New Analysis" button, rendered while there is an analysisResult
HandleReset ==
    /\ app.analysisResult # Null
    /\ app' = handleReset(app)
    /\ UNCHANGED requests
    /\ UNCHANGED serverVars

\* the navigation tabs: the analysis tab is disabled without an analysisResult,
\* the report tab without an llmReport
SetActiveTab ==
    /\ \E tab \in {"upload", "analysis", "report"} :
           /\ tab = "analysis" => app.analysisResult # Null
           /\ tab = "report" => app.llmReport # Null
           /\ app' = [app EXCEPT !.activeTab = tab]
    /\ UNCHANGED requests
    /\ UNCHANGED serverVars

NextClient == \/ HandleFileChange
              \/ HandleAnalyze
              \/ AnalyzeSettled
              \/ HandleGenerateReport
              \/ ReportSettled
              \/ HandleReset
              \/ SetActiveTab

InitClient == Start(<< >>, Null, Null, "linux")

SpecClient == InitClient /\ [][NextClient]_vars

\* C30: in every reachable state of the App component an llmReport comes with an
\* analysisResult, also when handleReset runs while a request started before
\* it is still awaited and settles afterwards.
ReportImpliesAnalysis ==
    app.llmReport # Null => app.analysisResult # Null

====
